---- MODULE Spec2Model ----
(***************************************************************************)
(* Model of the RTAC-export -> CIM SC-profile pipeline of scada-studio:    *)
(*   plugins/rtac_plg/parser.py      (schema-variant XML parser)           *)
(*   plugins/rtac_plg/sc_profile.py  (SCProfileBuilder, generate_sc_profile) *)
(*                                                                         *)
(* Conventions.  A Python str is a TLA+ string; Python None is the         *)
(* distinguished string None.  A Python dict is a function whose DOMAIN    *)
(* is its key set; an insertion-ordered dict whose order is observable     *)
(* (SCProfileBuilder._remote_units) is a sequence of [key, val] records.   *)
(* An xml.etree Element is a record [tag, attrib, text, children].         *)
(* uuid.uuid5 is idealised as a collision-free function of its seed.       *)
(***************************************************************************)
EXTENDS Integers, Sequences, FiniteSets, TLC

VARIABLES
    builder,     \* the SCProfileBuilder instance (its fields)
    devicesIn,   \* history: device records passed to add_devices so far
    centralIn,   \* history: names passed to set_rtu_identity so far
    log,         \* history: one entry per point record passed to add_points
    now,         \* wall clock, in whole seconds (datetime.now(timezone.utc))
    input,       \* pipeline: the (bytes, filename, substation) under test
    parsed,      \* pipeline: result of the last parse_rtac_xml_bytes call
    outputs,     \* pipeline: results of the generate_sc_profile_from_bytes runs
    builder2,    \* a second SCProfileBuilder instance of the process
    registry,    \* xml.etree.ElementTree._namespace_map, global to the process
    calls,       \* history: the calls made on the two instances, with results
    pushes,      \* webhook: the push events Gitea has still to deliver
    hookLog      \* history: what the push webhook fetched, indexed, profiled, committed

vars == <<builder, devicesIn, centralIn, log, now, input, parsed, outputs, builder2, registry, calls, pushes, hookLog>>

\* the state the builder and the pipeline do not share with a second
\* instance or with the webhook
isoVars == <<builder2, calls, pushes, hookLog>>

\* the state of the builders and of the pipeline
coreVars == <<builder, devicesIn, centralIn, log, now, input, parsed, outputs, builder2, registry, calls>>

-----------------------------------------------------------------------------
(* Bounds of the model                                                     *)

MaxDevices == 2      \* device records passed to add_devices in a behaviour
MaxCentral == 1      \* set_rtu_identity calls in a behaviour
MaxPoints  == 2      \* point records passed to add_points in a behaviour
MaxBatch   == 2      \* records in the list of one add_devices/add_points call
MaxTime    == 1      \* clock values 0..MaxTime

-----------------------------------------------------------------------------
(* Python values                                                           *)

None == "<None>"

Truthy(v) == v # None /\ v # ""

\* dict.get(key, default)
Get(d, key, default) == IF key \in DOMAIN d THEN d[key] ELSE default

\* a list literal element that is present only under a condition
Opt(cond, x) == IF cond THEN <<x>> ELSE <<>>

\* a local variable: F at the value of x, x being evaluated once
Bind(x, F(_)) == CHOOSE r \in {F(v) : v \in {x}} : TRUE

\* str(datetime.strftime("%Y-%m-%dT%H:%M:%SZ")) of the clock value t
Timestamp(t) == "T+" \o ToString(t) \o "Z"

\* str.lower(), character by character
LowerChar(c) ==
    CASE c = "A" -> "a" [] c = "B" -> "b" [] c = "C" -> "c" [] c = "D" -> "d"
      [] c = "E" -> "e" [] c = "F" -> "f" [] c = "G" -> "g" [] c = "H" -> "h"
      [] c = "I" -> "i" [] c = "J" -> "j" [] c = "K" -> "k" [] c = "L" -> "l"
      [] c = "M" -> "m" [] c = "N" -> "n" [] c = "O" -> "o" [] c = "P" -> "p"
      [] c = "Q" -> "q" [] c = "R" -> "r" [] c = "S" -> "s" [] c = "T" -> "t"
      [] c = "U" -> "u" [] c = "V" -> "v" [] c = "W" -> "w" [] c = "X" -> "x"
      [] c = "Y" -> "y" [] c = "Z" -> "z" [] OTHER -> c

RECURSIVE Lower(_)
Lower(s) == IF s = "" THEN "" ELSE LowerChar(Head(s)) \o Lower(Tail(s))

\* str.replace(old, new) for a one-character old
RECURSIVE Replace(_, _, _)
Replace(s, old, new) ==
    IF s = "" THEN ""
    ELSE (IF Head(s) = old THEN new ELSE Head(s)) \o Replace(Tail(s), old, new)

\* sep.join(parts)
RECURSIVE Join(_, _)
Join(sep, parts) ==
    IF parts = <<>> THEN ""
    ELSE IF Len(parts) = 1 THEN parts[1]
    ELSE parts[1] \o sep \o Join(sep, Tail(parts))

-----------------------------------------------------------------------------
(* xml.etree.ElementTree elements                                          *)

NoAttrib == <<>>

Element(tag, attrib, text, children) ==
    [tag |-> tag, attrib |-> attrib, text |-> text, tail |-> None, children |-> children]

\* an element with text and nothing else
TextEl(tag, text) == Element(tag, NoAttrib, text, <<>>)

\* an element carrying a single attribute
RefEl(tag, attr, value) == Element(tag, (attr :> value), None, <<>>)

\* Element.get(attr)
Attr(e, attr) == Get(e.attrib, attr, None)

\* Element.findall(tag): the direct children with that tag, in order
RECURSIVE SelectTag(_, _)
SelectTag(es, tag) ==
    IF es = <<>> THEN <<>>
    ELSE Opt(es[1].tag = tag, es[1]) \o SelectTag(Tail(es), tag)

FindAll(e, tag) == SelectTag(e.children, tag)

\* Element.find(tag): the first such child, or None
Find(e, tag) == IF FindAll(e, tag) = <<>> THEN None ELSE FindAll(e, tag)[1]

-----------------------------------------------------------------------------
(* sc_profile.py: namespaces and lookup tables                             *)

CIM_NS == "http://iec.ch/TC57/CIM100#"
RDF_NS == "http://www.w3.org/1999/02/22-rdf-syntax-ns#"
MD_NS  == "http://iec.ch/TC57/61970-552/ModelDescription/1#"
VER_NS == "http://verance.ai/CIM/SecondarySystem/1#"
PROFILE_URI == "http://verance.ai/CIM/SCADAConfiguration/1"

\* the f"{{{NS}}}local" qualified names
Q(ns, local) == "{" \o ns \o "}" \o local

\* variant of RTAC_TO_CIM_CLASS: INS is not mapped to Analog
RTAC_TO_CIM_CLASS_noINS ==
    [MV |-> "Analog", CMV |-> "Analog", INT |-> "Analog", INS |-> "Discrete",
     SPS |-> "Discrete", BOOL |-> "Discrete", DPS |-> "Discrete",
     BCR |-> "Accumulator",
     APC |-> "AnalogControl", INC |-> "AnalogControl", operAPC |-> "AnalogControl",
     SPC |-> "Command", DPC |-> "Command", operSPC |-> "Command"]

RTAC_TO_CIM_CLASS ==
    [MV |-> "Analog", CMV |-> "Analog", INT |-> "Analog", INS |-> "Analog",
     SPS |-> "Discrete", BOOL |-> "Discrete", DPS |-> "Discrete",
     BCR |-> "Accumulator",
     APC |-> "AnalogControl", INC |-> "AnalogControl", operAPC |-> "AnalogControl",
     SPC |-> "Command", DPC |-> "Command", operSPC |-> "Command"]

RTAC_TO_POINT_TYPE ==
    [MV |-> "AI", CMV |-> "AI", INT |-> "AI", INS |-> "AI",
     SPS |-> "BI", BOOL |-> "BI", DPS |-> "BI",
     BCR |-> "CT",
     APC |-> "AO", INC |-> "AO", operAPC |-> "AO",
     SPC |-> "BO", DPC |-> "BO", operSPC |-> "BO"]

\* variant of CONTROL_TYPES: INC is missing
CONTROL_TYPES_noINC == {"operAPC", "operSPC", "APC", "SPC", "DPC"}

CONTROL_TYPES == {"operAPC", "operSPC", "APC", "INC", "SPC", "DPC"}

-----------------------------------------------------------------------------
(* sc_profile.py: identifier generator                                     *)

\* uuid.uuid5(uuid.NAMESPACE_URL, seed), idealised as collision-free
uuid5(seed) == "uuid5(" \o seed \o ")"

\* the seed string handed to the hash
uuid_seed(namespace, parts) == Join("|", <<namespace>> \o parts)

deterministic_uuid(namespace, parts) == uuid5(uuid_seed(namespace, parts))

\* variant: time-based identifiers, the clock joining the seed
make_mrid_timed(prefix, parts) == "_" \o prefix \o "-" \o deterministic_uuid(prefix, parts \o <<ToString(now)>>)

make_mrid(prefix, parts) == "_" \o prefix \o "-" \o deterministic_uuid(prefix, parts)

-----------------------------------------------------------------------------
(* sc_profile.py: SCProfileBuilder                                         *)

\* dict[key] = val on an insertion-ordered dict: an existing key keeps its
\* position and gets the new value, a new key goes to the end
RECURSIVE DictSet(_, _, _)
DictSet(d, key, val) ==
    IF d = <<>> THEN <<[key |-> key, val |-> val]>>
    ELSE IF d[1].key = key THEN <<[key |-> key, val |-> val]>> \o Tail(d)
    ELSE <<d[1]>> \o DictSet(Tail(d), key, val)

DictKeys(d) == {d[i].key : i \in 1..Len(d)}

\* d[key] for a key that is present
DictGet(d, key) == d[CHOOSE i \in 1..Len(d) : d[i].key = key].val

Bump(stats, counter) == [stats EXCEPT ![counter] = @ + 1]

\* SCProfileBuilder.__init__; equipment_mapping is the dict after `or {}`
SCProfileBuilder(substation_name, eq_model_urn, pe_model_urn, model_description, equipment_mapping) ==
    [substation_name   |-> substation_name,
     eq_model_urn      |-> eq_model_urn,
     pe_model_urn      |-> pe_model_urn,
     model_urn         |-> "urn:uuid:" \o deterministic_uuid("sc-model", <<substation_name>>),
     model_description |-> IF Truthy(model_description) THEN model_description
                           ELSE "SCADA Configuration profile for " \o substation_name,
     equipment_mapping |-> equipment_mapping,
     remote_units      |-> <<>>,
     measurements      |-> <<>>,
     remote_sources    |-> <<>>,
     remote_controls   |-> <<>>,
     comm_links        |-> <<>>,
     dataflows         |-> <<>>,
     stats             |-> [remote_units |-> 0, analog_points |-> 0,
                            discrete_points |-> 0, accumulator_points |-> 0,
                            control_points |-> 0, data_flows |-> 0]]

\* the body of the loop of add_devices, for one device record
add_device(b, dev) ==
    LET device_name  == IF Truthy(Get(dev, "name", None)) THEN dev["name"]
                        ELSE Get(dev, "device_name", "UnknownDevice")
        map_name     == Get(dev, "map_name", device_name)
        source_file  == Get(dev, "_source_file", "")
        protocol     == Get(dev, "protocol", "")
        role         == Get(dev, "role", "device")
        manufacturer == Get(dev, "manufacturer", "")
        model        == Get(dev, "model", "")
        mrid         == make_mrid("rtu", <<b.substation_name, map_name>>)
        ru_type      == IF role = "server" THEN "RemoteUnitType.ControlCenter"
                        ELSE IF role = "client" THEN "RemoteUnitType.IED"
                        ELSE "RemoteUnitType.RTU"
        rtu == Element(Q(CIM_NS, "RemoteUnit"), (Q(RDF_NS, "ID") :> mrid), None,
                 <<TextEl(Q(CIM_NS, "IdentifiedObject.name"), device_name),
                   TextEl(Q(CIM_NS, "IdentifiedObject.mRID"), mrid),
                   RefEl(Q(CIM_NS, "RemoteUnit.remoteUnitType"),
                         Q(RDF_NS, "resource"), CIM_NS \o ru_type)>>
                 \o Opt(Truthy(source_file),
                        TextEl(Q(VER_NS, "RemoteUnit.sourceFile"), source_file))
                 \o Opt(Truthy(map_name),
                        TextEl(Q(VER_NS, "RemoteUnit.mapName"), map_name))
                 \o Opt(Truthy(protocol),
                        TextEl(Q(VER_NS, "RemoteUnit.protocol"), protocol))
                 \o Opt(Truthy(role),
                        TextEl(Q(VER_NS, "RemoteUnit.role"), role))
                 \o Opt(Truthy(manufacturer),
                        TextEl(Q(VER_NS, "RemoteUnit.manufacturer"), manufacturer))
                 \o Opt(Truthy(model),
                        TextEl(Q(VER_NS, "RemoteUnit.model"), model)))
    IN  [b EXCEPT !.remote_units = DictSet(@, map_name, rtu),
                  !.stats = Bump(@, "remote_units")]

RECURSIVE add_devices(_, _)
add_devices(b, devices) ==
    IF devices = <<>> THEN b
    ELSE add_devices(add_device(b, devices[1]), Tail(devices))

set_rtu_identity(b, rtu_name) ==
    LET mrid == make_mrid("rtac", <<b.substation_name, rtu_name>>)
        rtu == Element(Q(CIM_NS, "RemoteUnit"), (Q(RDF_NS, "ID") :> mrid), None,
                 <<TextEl(Q(CIM_NS, "IdentifiedObject.name"), rtu_name),
                   TextEl(Q(CIM_NS, "IdentifiedObject.mRID"), mrid),
                   RefEl(Q(CIM_NS, "RemoteUnit.remoteUnitType"), Q(RDF_NS, "resource"),
                         CIM_NS \o "RemoteUnitType.SubstationControlSystem"),
                   TextEl(Q(VER_NS, "RemoteUnit.role"), "rtu")>>)
    IN  [b EXCEPT !.remote_units = DictSet(@, "__rtac__" \o rtu_name, rtu),
                  !.stats = Bump(@, "remote_units")]

resolve_equipment_mrid(b, tag_name, map_name) ==
    IF tag_name \in DOMAIN b.equipment_mapping THEN b.equipment_mapping[tag_name]
    ELSE IF Truthy(map_name) /\ map_name \in DOMAIN b.equipment_mapping
         THEN b.equipment_mapping[map_name]
    ELSE None

\* variant of resolve_rtu_mrid: falls back to the first unit of any number
resolve_rtu_mrid_first(b, map_name) ==
    IF Truthy(map_name) /\ map_name \in DictKeys(b.remote_units)
    THEN Attr(DictGet(b.remote_units, map_name), Q(RDF_NS, "ID"))
    ELSE IF Len(b.remote_units) >= 1
    THEN Attr(b.remote_units[1].val, Q(RDF_NS, "ID"))
    ELSE None

resolve_rtu_mrid(b, map_name) ==
    IF Truthy(map_name) /\ map_name \in DictKeys(b.remote_units)
    THEN Attr(DictGet(b.remote_units, map_name), Q(RDF_NS, "ID"))
    ELSE IF Len(b.remote_units) = 1
    THEN Attr(b.remote_units[1].val, Q(RDF_NS, "ID"))
    ELSE None

\* variant of point_mrid: the seed also takes the position of insertion
point_mrid_indexed(b, tag_name) ==
    make_mrid("pt", <<b.substation_name, tag_name, ToString(Len(b.measurements))>>)

\* the identifier of the Measurement/Control node of a point (line 259)
point_mrid(b, tag_name) == make_mrid("pt", <<b.substation_name, tag_name>>)

\* variant of point_counter: controls are counted as data flows
point_counter_dataflow(is_control, cim_class) ==
    IF is_control THEN "data_flows"
    ELSE IF cim_class = "Analog" THEN "analog_points"
    ELSE IF cim_class = "Accumulator" THEN "accumulator_points"
    ELSE "discrete_points"

\* the stats counter incremented for a point (lines 262-273)
point_counter(is_control, cim_class) ==
    IF is_control THEN "control_points"
    ELSE IF cim_class = "Analog" THEN "analog_points"
    ELSE IF cim_class = "Accumulator" THEN "accumulator_points"
    ELSE "discrete_points"

\* the element class created for a point (lines 262-273)
point_tag(is_control, cim_class) ==
    IF is_control THEN Q(CIM_NS, "Control")
    ELSE IF cim_class = "Analog" THEN Q(CIM_NS, "Analog")
    ELSE IF cim_class = "Accumulator" THEN Q(CIM_NS, "Accumulator")
    ELSE Q(CIM_NS, "Discrete")

\* the body of the loop of add_points after the name check (lines 255-341)
emit_point(b, pt) ==
    LET tag_name    == Get(pt, "name", "")
        address     == Get(pt, "address", "")
        data_type   == Get(pt, "type", "")
        description == Get(pt, "description", "")
        map_name    == Get(pt, "map_name", "")
        source_file == Get(pt, "_source_file", "")
        cim_class   == Get(RTAC_TO_CIM_CLASS, data_type, "Discrete")
        point_type  == Get(RTAC_TO_POINT_TYPE, data_type, "BI")
        is_control  == data_type \in CONTROL_TYPES
        mrid        == point_mrid(b, tag_name)
        eq_mrid     == resolve_equipment_mrid(b, tag_name, map_name)
        elem == Element(point_tag(is_control, cim_class), (Q(RDF_NS, "ID") :> mrid), None,
                  <<TextEl(Q(CIM_NS, "IdentifiedObject.name"), tag_name),
                    TextEl(Q(CIM_NS, "IdentifiedObject.mRID"), mrid)>>
                  \o Opt(Truthy(description),
                         TextEl(Q(CIM_NS, "IdentifiedObject.description"), description))
                  \o Opt(~is_control,
                         TextEl(Q(CIM_NS, "Measurement.measurementType"), point_type))
                  \o Opt(Truthy(eq_mrid),
                         RefEl(IF is_control THEN Q(CIM_NS, "Control.PowerSystemResource")
                               ELSE Q(CIM_NS, "Measurement.PowerSystemResource"),
                               Q(RDF_NS, "resource"), "#" \o eq_mrid))
                  \o Opt(Truthy(address),
                         TextEl(Q(VER_NS, "SCADAPoint.dnp3Address"), address))
                  \o <<TextEl(Q(VER_NS, "SCADAPoint.protocol"), "DNP3"),
                       TextEl(Q(VER_NS, "SCADAPoint.dataType"), data_type),
                       TextEl(Q(VER_NS, "SCADAPoint.tagName"), tag_name)>>
                  \o Opt(Truthy(source_file),
                         TextEl(Q(VER_NS, "SCADAPoint.sourceFile"), source_file)))
        rtu_mrid == resolve_rtu_mrid(b, map_name)
        rc == Element(Q(CIM_NS, "RemoteControl"),
                (Q(RDF_NS, "ID") :> make_mrid("rc", <<b.substation_name, tag_name>>)), None,
                <<RefEl(Q(CIM_NS, "RemoteControl.Control"), Q(RDF_NS, "resource"), "#" \o mrid),
                  RefEl(Q(CIM_NS, "RemotePoint.RemoteUnit"), Q(RDF_NS, "resource"), "#" \o rtu_mrid)>>)
        rs == Element(Q(CIM_NS, "RemoteSource"),
                (Q(RDF_NS, "ID") :> make_mrid("rs", <<b.substation_name, tag_name>>)), None,
                <<RefEl(Q(CIM_NS, "RemoteSource.MeasurementValue"), Q(RDF_NS, "resource"), "#" \o mrid),
                  RefEl(Q(CIM_NS, "RemotePoint.RemoteUnit"), Q(RDF_NS, "resource"), "#" \o rtu_mrid)>>)
    IN  [b EXCEPT
            !.stats = Bump(@, point_counter(is_control, cim_class)),
            !.measurements = Append(@, elem),
            !.remote_controls = @ \o Opt(Truthy(rtu_mrid) /\ is_control, rc),
            !.remote_sources = @ \o Opt(Truthy(rtu_mrid) /\ ~is_control, rs)]

\* variant of add_point: no name check
add_point_unnamed(b, pt) == emit_point(b, pt)

\* variant of add_point: a point whose remote unit is not resolved is dropped
add_point_strict(b, pt) ==
    IF ~Truthy(Get(pt, "name", "")) THEN b
    ELSE IF resolve_rtu_mrid(b, Get(pt, "map_name", "")) = None THEN b
    ELSE emit_point(b, pt)

\* the body of the loop of add_points, for one point record (lines 244-341)
add_point(b, pt) ==
    IF ~Truthy(Get(pt, "name", "")) THEN b ELSE emit_point(b, pt)

RECURSIVE add_points(_, _)
add_points(b, points) ==
    IF points = <<>> THEN b
    ELSE add_points(add_point(b, points[1]), Tail(points))

get_stats(b) ==
    [remote_units       |-> b.stats.remote_units,
     analog_points      |-> b.stats.analog_points,
     discrete_points    |-> b.stats.discrete_points,
     accumulator_points |-> b.stats.accumulator_points,
     control_points     |-> b.stats.control_points,
     data_flows         |-> b.stats.data_flows,
     total_points       |-> b.stats.analog_points + b.stats.discrete_points
                            + b.stats.accumulator_points + b.stats.control_points,
     substation         |-> b.substation_name,
     model_urn          |-> b.model_urn]

\* the values of an insertion-ordered dict, in order
DictValues(d) == [i \in 1..Len(d) |-> d[i].val]

\* str.strip() of a text or tail leaves nothing (None included)
RECURSIVE Blank(_)
Blank(s) ==
    \/ s = None
    \/ s = ""
    \/ Head(s) \in {" ", "\n"} /\ Blank(Tail(s))

\* indentations[level] of ElementTree.indent for space = "  "
RECURSIVE Indentation(_)
Indentation(level) == IF level = 0 THEN "\n" ELSE Indentation(level - 1) \o "  "

\* _indent_children of ElementTree.indent, on an element that has children:
\* blank text becomes the indentation of the children, the blank tail of a
\* child that of its siblings, of the last child that of the element
RECURSIVE indent_children(_, _)
indent_children(elem, level) ==
    [elem EXCEPT
       !.text = IF Blank(@) THEN Indentation(level + 1) ELSE @,
       !.children = [i \in DOMAIN @ |->
           [(IF @[i].children # <<>> THEN indent_children(@[i], level + 1) ELSE @[i])
              EXCEPT !.tail = IF ~Blank(@) THEN @
                              ELSE IF i = Len(elem.children) THEN Indentation(level)
                              ELSE Indentation(level + 1)]]]

\* ElementTree.indent(tree, space="  ")
indent(tree) == IF tree.children = <<>> THEN tree ELSE indent_children(tree, 0)

\* ElementTree.register_namespace: entries with the URI or the prefix go
register_namespace(reg, prefix, uri) ==
    (uri :> prefix) @@ [k \in {u \in DOMAIN reg : u # uri /\ reg[u] # prefix} |-> reg[k]]

\* the four registrations that open serialize
register_namespaces(reg) ==
    register_namespace(register_namespace(register_namespace(register_namespace(
        reg, "rdf", RDF_NS), "cim", CIM_NS), "md", MD_NS), "ver", VER_NS)

\* the registry of a fresh process, as far as the document's namespaces go
DefaultRegistry ==
    (RDF_NS :> "rdf") @@ ("http://www.w3.org/XML/1998/namespace" :> "xml")

\* the prefixes tostring writes for the namespaces of the document: the
\* registered one, a generated one ("ns") for a namespace not registered
prefixes(reg) ==
    [uri \in {RDF_NS, CIM_NS, MD_NS, VER_NS} |-> IF uri \in DOMAIN reg THEN reg[uri] ELSE "ns"]

\* SCProfileBuilder.serialize at clock value t: the RDF root element after
\* indent, whose rendering by tostring with the registered prefixes is the
\* byte string returned
serialize(b, t) ==
    LET ts == Timestamp(t)
        header == Element(Q(MD_NS, "FullModel"), (Q(RDF_NS, "about") :> b.model_urn), None,
                    <<TextEl(Q(MD_NS, "Model.scenarioTime"), ts),
                      TextEl(Q(MD_NS, "Model.created"), ts),
                      TextEl(Q(MD_NS, "Model.description"), b.model_description),
                      TextEl(Q(MD_NS, "Model.modelingAuthoritySet"),
                             "http://verance.ai/SA/" \o b.substation_name),
                      TextEl(Q(MD_NS, "Model.profile"), PROFILE_URI)>>
                    \o Opt(Truthy(b.eq_model_urn),
                           RefEl(Q(MD_NS, "Model.DependentOn"), Q(RDF_NS, "resource"),
                                 b.eq_model_urn))
                    \o Opt(Truthy(b.pe_model_urn),
                           RefEl(Q(MD_NS, "Model.DependentOn"), Q(RDF_NS, "resource"),
                                 b.pe_model_urn)))
    IN  indent(Element(Q(RDF_NS, "RDF"), NoAttrib, None,
                <<header>> \o DictValues(b.remote_units) \o b.measurements
                \o b.remote_sources \o b.remote_controls
                \o b.comm_links \o b.dataflows))

\* variant: serialize moves the measurements out of the builder
serialized_drained(b, t) == [b EXCEPT !.measurements = <<>>]

\* the builder after serialize: root.append puts the stored elements
\* themselves under the root, so that indent rewrites their text and tail
serialized(b, t) ==
    LET kids == serialize(b, t).children
        n1 == 1 + Len(b.remote_units)
        n2 == n1 + Len(b.measurements)
        n3 == n2 + Len(b.remote_sources)
        n4 == n3 + Len(b.remote_controls)
        n5 == n4 + Len(b.comm_links)
    IN  [b EXCEPT
           !.remote_units = [i \in DOMAIN @ |-> [key |-> @[i].key, val |-> kids[1 + i]]],
           !.measurements = [i \in DOMAIN @ |-> kids[n1 + i]],
           !.remote_sources = [i \in DOMAIN @ |-> kids[n2 + i]],
           !.remote_controls = [i \in DOMAIN @ |-> kids[n3 + i]],
           !.comm_links = [i \in DOMAIN @ |-> kids[n4 + i]],
           !.dataflows = [i \in DOMAIN @ |-> kids[n5 + i]]]

-----------------------------------------------------------------------------
(* parser.py                                                               *)

\* Element text is None for an element without character data
\* str.strip() (the exports modelled here have no other white space than " ")
RECURSIVE LStrip(_)
LStrip(s) == IF s # "" /\ Head(s) = " " THEN LStrip(Tail(s)) ELSE s

RECURSIVE RStrip(_)
RStrip(s) ==
    IF s # "" /\ SubSeq(s, Len(s), Len(s)) = " " THEN RStrip(SubSeq(s, 1, Len(s) - 1))
    ELSE s

Strip(s) == RStrip(LStrip(s))

\* the descendants of an element in document order, the element excluded
RECURSIVE Descendants(_)
RECURSIVE DescendantsOfAll(_)
Descendants(e) == DescendantsOfAll(e.children)
DescendantsOfAll(es) ==
    IF es = <<>> THEN <<>>
    ELSE <<es[1]>> \o Descendants(es[1]) \o DescendantsOfAll(Tail(es))

\* Element.findall(".//tag")
FindAllDeep(e, tag) == SelectTag(Descendants(e), tag)

\* Element.iter()
Iter(e) == <<e>> \o Descendants(e)

\* Element.findall(".//SettingPage/Row")
RECURSIVE RowsOfPages(_)
RowsOfPages(pages) ==
    IF pages = <<>> THEN <<>>
    ELSE FindAll(pages[1], "Row") \o RowsOfPages(Tail(pages))

SettingPageRows(e) == RowsOfPages(FindAllDeep(e, "SettingPage"))

\* d.get(key, default) on an insertion-ordered dict
DictGetOr(d, key, default) == IF key \in DictKeys(d) THEN DictGet(d, key) ELSE default

POINT_TAGS ==
    {"point", "Point", "Tag", "tag",
     "DataPoint", "datapoint", "DevicePoint", "devicepoint"}

\* dict[key] = val on a dict whose order is not observed
Put(d, key, val) == (key :> val) @@ d

\* _extract_point: the loop over the children of a point element
RECURSIVE extract_point_from(_, _)
extract_point_from(children, data) ==
    IF children = <<>> THEN data
    ELSE LET child == children[1]
             tag   == Lower(child.tag)
             text  == Strip(IF Truthy(child.text) THEN child.text ELSE "")
             key   == IF tag \in {"name", "id", "tag", "tagname"} THEN "name"
                      ELSE IF tag \in {"address", "addr", "ioaddress"} THEN "address"
                      ELSE IF tag \in {"type", "pointtype", "datatype"} THEN "type"
                      ELSE IF tag \in {"units", "unit", "uom"} THEN "units"
                      ELSE IF tag \in {"description", "desc"} THEN "description"
                      ELSE child.tag
         IN  extract_point_from(Tail(children), Put(data, key, text))

extract_point(elem) == extract_point_from(elem.children, <<>>)

\* the dict comprehension of _parse_rtac_taglist: Column text -> Value text
\* over the Setting children that have both, a later duplicate replacing
\* the value of an earlier one
RECURSIVE row_settings_from(_, _)
row_settings_from(setting_els, d) ==
    IF setting_els = <<>> THEN d
    ELSE LET s == setting_els[1] IN
         Bind(IF FindAll(s, "Column") # <<>> /\ FindAll(s, "Value") # <<>>
              THEN DictSet(d, Find(s, "Column").text, Find(s, "Value").text)
              ELSE d,
              LAMBDA d2 : row_settings_from(Tail(setting_els), d2))

row_settings(row) == row_settings_from(FindAll(row, "Setting"), <<>>)

SkipKeys == {"tag_name", "point_number", "tag_type", "comment", "enable"}

\* the "Extra settings" loop: [raised, data]
RECURSIVE extra_settings(_, _)
extra_settings(items, data) ==
    IF items = <<>> THEN [raised |-> FALSE, data |-> data]
    ELSE IF items[1].key = None THEN [raised |-> TRUE, data |-> data]
    ELSE LET key == Replace(Lower(items[1].key), " ", "_") IN
         extra_settings(Tail(items),
            IF key \notin SkipKeys THEN Put(data, key, items[1].val) ELSE data)

\* variant: a row is dropped only when its Enable value is "false"
row_enabled_unless_false(enable) == Lower(enable) # "false"

\* the row passes the Enable test of _parse_rtac_taglist (line 59); the
\* caller has excluded the value None, on which .lower() raises
row_enabled(enable) == Lower(enable) = "true"

\* the body of the loop of _parse_rtac_taglist for one Row element, from
\* the settings dict on: [raised, points] with zero or one point record
parse_settings(settings, filename, map_name) ==
    LET keys     == DictKeys(settings)
        enable   == DictGetOr(settings, "Enable", "")
        d1 == IF "Tag Name" \in keys
              THEN Put(<<>>, "name", DictGet(settings, "Tag Name")) ELSE <<>>
        d2 == IF "Point Number" \in keys
              THEN Put(d1, "address", DictGet(settings, "Point Number")) ELSE d1
        d3 == IF "Tag Type" \in keys
              THEN Put(d2, "type", DictGet(settings, "Tag Type")) ELSE d2
        d4 == IF "Comment" \in keys /\ Truthy(DictGet(settings, "Comment"))
              THEN Put(d3, "description", DictGet(settings, "Comment")) ELSE d3
        d5 == IF Truthy(map_name) THEN Put(d4, "map_name", map_name) ELSE d4
    IN  IF enable = None THEN [raised |-> TRUE, points |-> <<>>]
        ELSE IF ~row_enabled(enable) THEN [raised |-> FALSE, points |-> <<>>]
        ELSE Bind(extra_settings(settings, d5), LAMBDA ex :
                IF ex.raised THEN [raised |-> TRUE, points |-> <<>>]
                ELSE IF DOMAIN ex.data = {} THEN [raised |-> FALSE, points |-> <<>>]
                ELSE [raised |-> FALSE,
                      points |-> <<Put(ex.data, "_source_file", filename)>>])

parse_row(row, filename, map_name) ==
    Bind(row_settings(row), LAMBDA settings : parse_settings(settings, filename, map_name))

RECURSIVE parse_rows(_, _, _)
parse_rows(rows, filename, map_name) ==
    IF rows = <<>> THEN [raised |-> FALSE, points |-> <<>>]
    ELSE Bind(parse_row(rows[1], filename, map_name), LAMBDA first :
         Bind(parse_rows(Tail(rows), filename, map_name), LAMBDA rest :
            IF first.raised \/ rest.raised THEN [raised |-> TRUE, points |-> <<>>]
            ELSE [raised |-> FALSE, points |-> first.points \o rest.points]))

parse_rtac_taglist(root, filename, map_name) ==
    Bind(SettingPageRows(root), LAMBDA rows : parse_rows(rows, filename, map_name))

\* points.extend(_parse_rtac_taglist(tl, ...)) over a list of TagList elements
RECURSIVE parse_taglists(_, _, _)
parse_taglists(taglists, filename, map_name) ==
    IF taglists = <<>> THEN [raised |-> FALSE, points |-> <<>>]
    ELSE Bind(parse_rtac_taglist(taglists[1], filename, map_name), LAMBDA first :
         Bind(parse_taglists(Tail(taglists), filename, map_name), LAMBDA rest :
            IF first.raised \/ rest.raised THEN [raised |-> TRUE, points |-> <<>>]
            ELSE [raised |-> FALSE, points |-> first.points \o rest.points]))

\* variant: the map-name is read from the first Setting of the first row
find_map_name_first(rows) ==
    IF rows = <<>> THEN "" ELSE Find(FindAll(rows[1], "Setting")[1], "Value").text

\* the search of _parse_device for the "Map Name" row of the connection
RECURSIVE find_map_name(_)
find_map_name(rows) ==
    IF rows = <<>> THEN ""
    ELSE LET settings_in_row == FindAll(rows[1], "Setting")
             first  == settings_in_row[1]
             second == settings_in_row[2]
         IN  IF /\ Len(settings_in_row) >= 2
                /\ FindAll(first, "Column") # <<>>
                /\ Find(first, "Column").text = "Setting"
                /\ FindAll(first, "Value") # <<>>
                /\ Find(first, "Value").text = "Map Name"
                /\ FindAll(second, "Value") # <<>>
             THEN (IF Truthy(Find(second, "Value").text)
                   THEN Find(second, "Value").text ELSE "")
             ELSE find_map_name(Tail(rows))

\* _parse_device from the Device element on, under a DNPServer connection
\* of map-name map_name: [raised, devices, points]
parse_dnp_server(device, filename, map_name) ==
    LET names == FindAllDeep(device, "Name")
        device_name == IF names # <<>> THEN names[1].text ELSE filename
    IN  Bind(FindAllDeep(device, "TagList"), LAMBDA taglists :
        Bind(parse_taglists(taglists, filename, map_name), LAMBDA pts :
           IF pts.raised THEN [raised |-> TRUE, devices |-> <<>>, points |-> <<>>]
           ELSE [raised |-> FALSE,
                 devices |-> Opt(Truthy(map_name),
                                 ("name" :> device_name) @@ ("map_name" :> map_name)
                                    @@ ("_source_file" :> filename)),
                 points |-> pts.points]))

\* _parse_device from the Device element on
parse_device_el(device, filename) ==
    LET connections == FindAllDeep(device, "Connection")
        connection  == connections[1]
        is_dnp == /\ connections # <<>>
                  /\ FindAll(connection, "Protocol") # <<>>
                  /\ Find(connection, "Protocol").text = "DNPServer"
    IN  IF ~is_dnp THEN [raised |-> FALSE, devices |-> <<>>, points |-> <<>>]
        ELSE Bind(find_map_name(FindAllDeep(connection, "Row")), LAMBDA map_name :
                parse_dnp_server(device, filename, map_name))

\* _parse_device: [raised, devices, points]
parse_device(root, filename) ==
    Bind(FindAllDeep(root, "Device"), LAMBDA devices :
       IF devices = <<>> THEN [raised |-> FALSE, devices |-> <<>>, points |-> <<>>]
       ELSE parse_device_el(devices[1], filename))

\* the generic extraction loop of parse_rtac_xml_root
RECURSIVE generic_points(_, _)
generic_points(elems, filename) ==
    IF elems = <<>> THEN <<>>
    ELSE LET elem == elems[1]
             p    == extract_point(elem)
             attr_name == Get(elem.attrib, "name", None)
             named == IF "name" \in DOMAIN p THEN p
                      ELSE Put(p, "name", IF Truthy(attr_name) THEN attr_name
                                          ELSE Get(elem.attrib, "id", ""))
         IN  Opt(elem.tag \in POINT_TAGS, Put(named, "_source_file", filename))
             \o generic_points(Tail(elems), filename)

\* the strategy parse_rtac_xml_root chooses: root.find(".//Device") and
\* root.findall(".//TagList") search below the root
detect_shape(root) ==
    IF FindAllDeep(root, "Device") # <<>> THEN "Device"
    ELSE IF FindAllDeep(root, "TagList") # <<>> THEN "TagList"
    ELSE "generic"

\* the three branches of parse_rtac_xml_root
parse_shape(shape, root, filename) ==
    IF shape = "Device" THEN parse_device(root, filename)
    ELSE IF shape = "TagList"
    THEN Bind(parse_taglists(FindAllDeep(root, "TagList"), filename, ""), LAMBDA pts :
            [raised |-> pts.raised, devices |-> <<>>, points |-> pts.points])
    ELSE [raised |-> FALSE, devices |-> <<>>,
          points |-> generic_points(Iter(root), filename)]

\* a parse that tries the next strategy when the chosen one yields nothing
parse_rtac_xml_root_fallthrough(root, filename) ==
    Bind(parse_shape(detect_shape(root), root, filename), LAMBDA r :
       IF detect_shape(root) = "Device" /\ ~r.raised /\ r.devices = <<>> /\ r.points = <<>>
       THEN parse_shape(IF FindAllDeep(root, "TagList") # <<>> THEN "TagList" ELSE "generic",
                        root, filename)
       ELSE r)

parse_rtac_xml_root(root, filename) == parse_shape(detect_shape(root), root, filename)

\* parse_rtac_xml_bytes; the bytes are a record [wellformed, root], ET.fromstring
\* giving the root of well-formed bytes and raising ParseError on the others
parse_rtac_xml_bytes(xml_bytes, filename) ==
    IF ~xml_bytes.wellformed
    THEN [raised |-> TRUE, devices |-> <<>>, points |-> <<>>]
    ELSE parse_rtac_xml_root(xml_bytes.root, filename)

-----------------------------------------------------------------------------
(* sc_profile.py: the convenience functions, run at clock value t          *)

\* [raised, xml, stats]
generate_sc_profile(devices, points, substation_name, rtu_name, eq_model_urn, pe_model_urn, equipment_mapping, t) ==
    LET b0 == SCProfileBuilder(substation_name, eq_model_urn, pe_model_urn,
                               None, equipment_mapping)
        b1 == IF Truthy(rtu_name) THEN set_rtu_identity(b0, rtu_name) ELSE b0
    IN  Bind(add_devices(b1, devices), LAMBDA b2 :
        Bind(add_points(b2, points), LAMBDA b3 :
           [raised |-> FALSE, xml |-> serialize(b3, t), stats |-> get_stats(b3)]))

generate_sc_profile_from_bytes(xml_bytes, filename, substation_name, eq_model_urn, equipment_mapping, t) ==
    Bind(parse_rtac_xml_bytes(xml_bytes, filename), LAMBDA p :
       IF p.raised THEN [raised |-> TRUE, xml |-> None, stats |-> None]
       ELSE generate_sc_profile(p.devices, p.points, substation_name, None,
                                eq_model_urn, None, equipment_mapping, t))

-----------------------------------------------------------------------------
(* Inputs of the builder                                                   *)

\* constructor arguments: (substation_name, eq_model_urn, pe_model_urn,
\* model_description, equipment_mapping)
DefaultConfig == <<"maple", None, None, None, <<>>>>

BuilderConfigs ==
    {DefaultConfig,
     <<"oak", "urn:uuid:eq-model-001", "urn:uuid:pe-model-001", "Oak SC profile",
       ("P1" :> "_eq-brk1") @@ ("M2" :> "_eq-bay2")>>}

NewBuilder(c) == SCProfileBuilder(c[1], c[2], c[3], c[4], c[5])

\* the constructor arguments of the second instance
SecondConfig == CHOOSE c \in BuilderConfigs : c # DefaultConfig

\* device dicts: as parse_rtac_xml_bytes returns them (name, map_name,
\* _source_file) and with the optional keys add_devices reads
DeviceRecords ==
    {("name" :> "IED1") @@ ("map_name" :> "M1") @@ ("_source_file" :> "a.xml"),
     ("name" :> "IED2") @@ ("map_name" :> "M2") @@ ("role" :> "client")
        @@ ("protocol" :> "DNP3") @@ ("manufacturer" :> "SEL") @@ ("model" :> "751")}

RtuNames == {"R1"}

\* point dicts: as the parser returns them and with keys absent or empty
PointRecords ==
    {("name" :> "P1") @@ ("type" :> "MV") @@ ("address" :> "101")
        @@ ("map_name" :> "M1") @@ ("_source_file" :> "a.xml"),
     ("name" :> "P2") @@ ("type" :> "SPC") @@ ("map_name" :> "M2")
        @@ ("description" :> "trip"),
     ("name" :> "P1") @@ ("type" :> "BCR") @@ ("address" :> "7") @@ ("map_name" :> ""),
     ("type" :> "DPC") @@ ("address" :> "9") @@ ("map_name" :> "M2")}

Min(a, b) == IF a <= b THEN a ELSE b

\* the lists of at most n elements of S
Lists(S, n) == UNION {[1..k -> S] : k \in 0..n}

-----------------------------------------------------------------------------
(* History of add_points: what each point record passed in gave rise to    *)

\* the entry for record pt processed in builder state b: the record, the
\* remote-unit keys and the number of device records given so far, and the positions of the
\* nodes appended for it (0 = none)
LogEntry(b, pt, ndev) ==
    LET b2 == add_point(b, pt)
        Pos(before, after) == IF Len(after) > Len(before) THEN Len(after) ELSE 0
    IN  [pt      |-> pt,
         units   |-> DictKeys(b.remote_units),
         devices |-> ndev,
         meas    |-> Pos(b.measurements, b2.measurements),
         rs      |-> Pos(b.remote_sources, b2.remote_sources),
         rc      |-> Pos(b.remote_controls, b2.remote_controls)]

RECURSIVE LogOf(_, _, _)
LogOf(b, points, ndev) ==
    IF points = <<>> THEN <<>>
    ELSE <<LogEntry(b, points[1], ndev)>>
         \o LogOf(add_point(b, points[1]), Tail(points), ndev)

-----------------------------------------------------------------------------
(* The builder as a state machine                                          *)

Idle == <<>>

Init ==
    /\ builder = NewBuilder(DefaultConfig)
    /\ devicesIn = <<>>
    /\ centralIn = <<>>
    /\ log = <<>>
    /\ now = 0
    /\ input = Idle
    /\ parsed = Idle
    /\ outputs = <<>>
    /\ builder2 = NewBuilder(SecondConfig)
    /\ registry = DefaultRegistry
    /\ calls = <<>>
    /\ pushes = <<>>
    /\ hookLog = <<>>

AddDevicesFrom(D, max) ==
    \E devices \in Lists(D, Min(MaxBatch, max - Len(devicesIn))) :
        /\ builder' = add_devices(builder, devices)
        /\ devicesIn' = devicesIn \o devices
        /\ UNCHANGED <<centralIn, log, now, input, parsed, outputs, isoVars, registry>>

AddPointsFrom(P, max) ==
    \E points \in Lists(P, Min(MaxBatch, max - Len(log))) :
        /\ builder' = add_points(builder, points)
        /\ log' = log \o LogOf(builder, points, Len(devicesIn))
        /\ UNCHANGED <<devicesIn, centralIn, now, input, parsed, outputs, isoVars, registry>>

AddDevices == AddDevicesFrom(DeviceRecords, MaxDevices)

SetRtuIdentity ==
    \E rtu_name \in RtuNames :
        /\ Len(centralIn) < MaxCentral
        /\ builder' = set_rtu_identity(builder, rtu_name)
        /\ centralIn' = Append(centralIn, rtu_name)
        /\ UNCHANGED <<devicesIn, log, now, input, parsed, outputs, isoVars, registry>>

AddPoints == AddPointsFrom(PointRecords, MaxPoints)

Next == AddDevices \/ SetRtuIdentity \/ AddPoints

Spec == Init /\ [][Next]_vars

-----------------------------------------------------------------------------
(* The builder over every data-type code: few calls, all codes             *)

MaxTypeDevices == 1   \* device records passed to add_devices
MaxTypePoints  == 1   \* point records passed to add_points

\* the fourteen mapped codes, and codes that are unmapped, differ in letter
\* case, are empty or are None
DataTypes ==
    {"MV", "CMV", "INT", "INS", "SPS", "BOOL", "DPS", "BCR",
     "APC", "INC", "operAPC", "SPC", "DPC", "operSPC",
     "XYZ", "mv", "spc", "OPERSPC", "", None}

TypeDevices ==
    {("name" :> "IED1") @@ ("map_name" :> "M1") @@ ("role" :> "server"),
     ("device_name" :> "GW") @@ ("map_name" :> "") @@ ("role" :> "")}

TypePoints ==
    {("name" :> "P1") @@ ("type" :> t) @@ ("map_name" :> "M1") : t \in DataTypes}
    \cup {("name" :> "P1") @@ ("type" :> t) @@ ("map_name" :> "M9") : t \in {"MV", "SPC"}}
    \cup {("name" :> "P1") @@ ("map_name" :> "M1"),
          ("name" :> "") @@ ("type" :> "MV") @@ ("map_name" :> "M1")}

InitTypes ==
    /\ builder \in {NewBuilder(c) : c \in BuilderConfigs}
    /\ devicesIn = <<>>
    /\ centralIn = <<>>
    /\ log = <<>>
    /\ now = 0
    /\ input = Idle
    /\ parsed = Idle
    /\ outputs = <<>>
    /\ builder2 = NewBuilder(SecondConfig)
    /\ registry = DefaultRegistry
    /\ calls = <<>>
    /\ pushes = <<>>
    /\ hookLog = <<>>

AddTypeDevices == AddDevicesFrom(TypeDevices, MaxTypeDevices)

AddTypePoints == AddPointsFrom(TypePoints, MaxTypePoints)

NextTypes == AddTypeDevices \/ AddTypePoints

SpecTypes == InitTypes /\ [][NextTypes]_vars

-----------------------------------------------------------------------------
(* The pipeline: one RTAC export, parsed and encoded at successive times    *)

MaxRows == 1   \* tag-table rows of an export
MaxRuns == 2   \* runs of generate_sc_profile_from_bytes on the export

\* a Setting element; Missing stands for a Column or Value child that is absent
Missing == "<missing>"

SettingEl(col, val) ==
    Element("Setting", NoAttrib, None,
            Opt(col # Missing, TextEl("Column", col)) \o Opt(val # Missing, TextEl("Value", val)))

RowEl(settings) ==
    Element("Row", NoAttrib, None, [i \in 1..Len(settings) |-> SettingEl(settings[i][1], settings[i][2])])

\* the rows of a tag table: enabled in several spellings, disabled, without
\* Enable, with an empty or a missing Enable value, with Enable twice, with
\* a column "enable", with nothing but Enable, with an empty column name,
\* with a "Map Name" column
TagRows ==
    {RowEl(r) : r \in
       { << <<"Enable", "true">>, <<"Tag Name", "P1">>, <<"Tag Type", "MV">>, <<"Point Number", "101">> >>,
         << <<"Enable", "True">>, <<"Tag Name", "P2">>, <<"Tag Type", "SPC">>, <<"Comment", "trip">> >>,
         << <<"Enable", "FALSE">>, <<"Tag Name", "P1">>, <<"Tag Type", "MV">> >>,
         << <<"Enable", "false">>, <<"Tag Name", "P2">> >>,
         << <<"Tag Name", "P1">>, <<"Tag Type", "MV">> >>,
         << <<"Enable", None>>, <<"Tag Name", "P1">> >>,
         << <<"Enable", Missing>>, <<"Tag Name", "P1">> >>,
         << <<"Enable", "False">>, <<"Enable", "TRUE">>, <<"Tag Name", "P1">>, <<"Tag Type", "BCR">> >>,
         << <<"Enable", "true">>, <<"Enable", "False">>, <<"Tag Name", "P2">> >>,
         << <<"enable", "true">>, <<"Tag Name", "P1">> >>,
         << <<"Enable", "true">> >>,
         << <<"Enable", "true">>, <<None, "x">>, <<"Tag Name", "P1">> >>,
         << <<"Enable", "TRUE">>, <<"Tag Name", "P1">>, <<"Map Name", "M9">> >> }}

TagListEl(rows) ==
    Element("TagList", NoAttrib, None, <<Element("SettingPage", NoAttrib, None, rows)>>)

\* an export of the Device shape: a device with its connection and tag table
DeviceDoc(protocol, map_value, rows) ==
    Element("Project", NoAttrib, None,
      <<Element("Device", NoAttrib, None,
          <<TextEl("Name", "IED1"),
            Element("Connection", NoAttrib, None,
              <<TextEl("Protocol", protocol),
                Element("SettingPage", NoAttrib, None,
                  <<RowEl(<< <<"Setting", "Map Name">>, <<"Value", map_value>> >>)>>)>>),
            TagListEl(rows)>>)>>)

\* an export of the TagList shape
TagListDoc(rows) == Element("Export", NoAttrib, None, <<TagListEl(rows)>>)

\* exports of neither shape, with point elements
GenericDocs ==
    { Element("Points", NoAttrib, None,
        <<Element("point", ("name" :> "G1"), None,
                  <<TextEl("Type", "MV"), TextEl("Address", " 5 ")>>),
          Element("Tag", NoAttrib, None,
                  <<TextEl("Name", "G2"), TextEl("DataType", "SPC"), TextEl("Foo", None)>>)>>),
      Element("DevicePoint", ("id" :> "G3"), None, <<>>) }

\* a row with a tag name, enabled
NamedRow ==
    RowEl(<< <<"Enable", "True">>, <<"Tag Name", "T9">>, <<"Tag Type", "MV">> >>)

\* a point element of the generic shape
PointEl == Element("point", ("name" :> "G9"), None, <<TextEl("Type", "MV")>>)

\* the device of an export, with the given children after its name
DeviceEl(children) == Element("Device", NoAttrib, None, <<TextEl("Name", "IED1")>> \o children)

\* the connection of a device with the given protocol and Map Name MAP1
ConnectionEl(protocol) ==
    Element("Connection", NoAttrib, None,
      <<TextEl("Protocol", protocol),
        Element("SettingPage", NoAttrib, None,
          <<RowEl(<< <<"Setting", "Map Name">>, <<"Value", "MAP1">> >>)>>)>>)

\* exports whose root element is itself a Device or a TagList
RootShapeDocs ==
    { DeviceEl(<<ConnectionEl("DNPServer"), TagListEl(<<NamedRow>>)>>),
      DeviceEl(<<ConnectionEl("DNPServer"), PointEl>>),
      TagListEl(<<NamedRow>>),
      Element("TagList", NoAttrib, None, <<PointEl>>) }

\* exports with a Device that yields nothing, next to a tag table and a point
MixedDocs ==
    { Element("Project", NoAttrib, None,
        <<DeviceEl(<<ConnectionEl("Modbus")>>), TagListEl(<<NamedRow>>), PointEl>>),
      Element("Project", NoAttrib, None,
        <<DeviceEl(<<>>), TagListEl(<<NamedRow>>), PointEl>>),
      Element("Project", NoAttrib, None,
        <<DeviceEl(<<ConnectionEl("Modbus"), TagListEl(<<NamedRow>>)>>), PointEl>>) }

Roots ==
    {DeviceDoc("DNPServer", "MAP1", rows) : rows \in Lists(TagRows, MaxRows)}
    \cup {DeviceDoc("DNPServer", None, rows) : rows \in Lists(TagRows, MaxRows)}
    \cup {DeviceDoc("Modbus", "MAP1", rows) : rows \in Lists(TagRows, MaxRows)}
    \cup {TagListDoc(rows) : rows \in Lists(TagRows, MaxRows)}
    \cup GenericDocs
    \cup RootShapeDocs
    \cup MixedDocs

\* the uploads: well-formed documents, and bytes that are not XML
Uploads ==
    {[wellformed |-> TRUE, root |-> r] : r \in Roots}
    \cup {[wellformed |-> FALSE, root |-> Element("", NoAttrib, None, <<>>)]}

Filenames == {"a.xml"}

GenInputs ==
    [xml_bytes : Uploads, filename : Filenames, substation_name : {"maple"}]

InitGen ==
    /\ builder = NewBuilder(DefaultConfig)
    /\ devicesIn = <<>>
    /\ centralIn = <<>>
    /\ log = <<>>
    /\ now = 0
    /\ input \in GenInputs
    /\ parsed = Idle
    /\ outputs = <<>>
    /\ builder2 = NewBuilder(SecondConfig)
    /\ registry = DefaultRegistry
    /\ calls = <<>>
    /\ pushes = <<>>
    /\ hookLog = <<>>

\* parse_rtac_xml_bytes on the upload
Parse ==
    /\ parsed = Idle
    /\ parsed' = <<parse_rtac_xml_bytes(input.xml_bytes, input.filename)>>
    /\ UNCHANGED <<builder, devicesIn, centralIn, log, now, input, outputs, isoVars, registry>>

\* generate_sc_profile_from_bytes on the upload, at the present time
Generate ==
    /\ Len(outputs) < MaxRuns
    /\ outputs' = Append(outputs,
          [at |-> now,
           result |-> generate_sc_profile_from_bytes(input.xml_bytes, input.filename,
                          input.substation_name, None, <<>>, now)])
    /\ UNCHANGED <<builder, devicesIn, centralIn, log, now, input, parsed, isoVars>>
    /\ registry' = register_namespaces(registry)

\* a second of the UTC clock passes
Tick ==
    /\ now < MaxTime
    /\ now' = now + 1
    /\ UNCHANGED <<builder, devicesIn, centralIn, log, input, parsed, outputs, isoVars, registry>>

NextGen == Parse \/ Generate \/ Tick

SpecGen == InitGen /\ [][NextGen]_vars

-----------------------------------------------------------------------------
(* Vocabulary of the properties                                            *)

\* a point record has a name that is neither missing nor empty
HasName(pt) == "name" \in DOMAIN pt /\ pt["name"] # "" /\ pt["name"] # None

\* the data type and map-name a point record carries ("" when it has none)
TypeOf(pt) == IF "type" \in DOMAIN pt THEN pt["type"] ELSE ""
MapNameOf(pt) == IF "map_name" \in DOMAIN pt THEN pt["map_name"] ELSE ""

\* the number of log entries satisfying a test
Count(Test(_)) == Cardinality({i \in 1..Len(log) : Test(log[i])})

\* a node has a child element of that tag / the text of its first such child
HasChild(e, tag) == FindAll(e, tag) # <<>>
ChildText(e, tag) == FindAll(e, tag)[1].text
ChildRef(e, tag) == FindAll(e, tag)[1].attrib[Q(RDF_NS, "resource")]
IdOf(e) == e.attrib[Q(RDF_NS, "ID")]

\* the nodes a log entry stands for
MeasOf(e) == builder.measurements[e.meas]
LinkOf(e) == IF e.rs > 0 THEN builder.remote_sources[e.rs]
             ELSE builder.remote_controls[e.rc]
Linked(e) == e.rs > 0 \/ e.rc > 0

\* the identifier the documentation promises for (kind, substation, key)
ExpectedId(kind, substation, key) ==
    "_" \o kind \o "-" \o uuid5(kind \o "|" \o substation \o "|" \o key)

IsCentral(unit) ==
    ChildRef(unit, Q(CIM_NS, "RemoteUnit.remoteUnitType"))
        = CIM_NS \o "RemoteUnitType.SubstationControlSystem"

\* the natural key of a RemoteUnit node: the RTU name of the central node,
\* the map-name of a device node
UnitKey(unit) ==
    IF IsCentral(unit) THEN ChildText(unit, Q(CIM_NS, "IdentifiedObject.name"))
    ELSE IF HasChild(unit, Q(VER_NS, "RemoteUnit.mapName"))
         THEN ChildText(unit, Q(VER_NS, "RemoteUnit.mapName"))
    ELSE ""

-----------------------------------------------------------------------------
(* C1, as stated: the runs of generate_sc_profile_from_bytes on one (bytes, *)
(* filename, substation name) return the same document, header fields and   *)
(* identifiers included, and the same statistics, at whatever times they    *)
(* happen.                                                                  *)
C1_Determinism ==
    \A i, j \in DOMAIN outputs : outputs[i].result = outputs[j].result

TimeFields == {Q(MD_NS, "Model.scenarioTime"), Q(MD_NS, "Model.created")}

\* a run's result with the text of the two time fields of the header erased
WithoutTimes(r) ==
    IF r.raised THEN r
    ELSE [r EXCEPT !.xml.children[1].children =
             [k \in DOMAIN @ |-> IF @[k].tag \in TimeFields
                                 THEN [@[k] EXCEPT !.text = ""] ELSE @[k]]]

\* C1, amended: the runs return documents and statistics that are the same
\* in everything but the text of Model.scenarioTime and Model.created, which
\* is the time of the run; runs at the same clock second return the same
\* document; a run raises iff every run does.
C1_DeterminismButTimes ==
    \A i, j \in DOMAIN outputs :
        /\ WithoutTimes(outputs[i].result) = WithoutTimes(outputs[j].result)
        /\ outputs[i].at = outputs[j].at => outputs[i].result = outputs[j].result
        /\ ~outputs[i].result.raised =>
              \A k \in 1..2 :
                 /\ outputs[i].result.xml.children[1].children[k].tag \in TimeFields
                 /\ outputs[i].result.xml.children[1].children[k].text = Timestamp(outputs[i].at)

\* two runs at different times, on an export that gives a remote unit, a
\* measurement and a link
C1_Witness ==
    /\ Len(outputs) = 2
    /\ outputs[1].at # outputs[2].at
    /\ ~outputs[1].result.raised
    /\ outputs[1].result.stats.remote_units = 1
    /\ outputs[1].result.stats.total_points = 1
    /\ \E k \in DOMAIN outputs[1].result.xml.children :
          outputs[1].result.xml.children[k].tag = Q(CIM_NS, "RemoteSource")

-----------------------------------------------------------------------------
(* C2: every identifier the builder assigns is the value, at (object kind,  *)
(* substation name, natural key), of one fixed function: the model URN at   *)
(* the substation, a RemoteUnit at its map-name or RTU name, a Measurement  *)
(* or Control node at its tag name, a RemoteSource/RemoteControl at the tag *)
(* name of its point; whatever was inserted before and in whatever order.   *)
C2_IdentifiersPure ==
    LET sub == builder.substation_name IN
    /\ builder.model_urn = "urn:uuid:" \o uuid5("sc-model|" \o sub)
    /\ \A i \in 1..Len(builder.remote_units) :
          LET u == builder.remote_units[i].val IN
          IdOf(u) = ExpectedId(IF IsCentral(u) THEN "rtac" ELSE "rtu", sub, UnitKey(u))
    /\ \A i \in 1..Len(builder.measurements) :
          LET m == builder.measurements[i] IN
          IdOf(m) = ExpectedId("pt", sub, ChildText(m, Q(CIM_NS, "IdentifiedObject.name")))
    /\ \A i \in 1..Len(log) :
          /\ log[i].rs > 0 =>
                IdOf(builder.remote_sources[log[i].rs])
                    = ExpectedId("rs", sub, log[i].pt["name"])
          /\ log[i].rc > 0 =>
                IdOf(builder.remote_controls[log[i].rc])
                    = ExpectedId("rc", sub, log[i].pt["name"])

\* two points were added after two units, one of them the central node, and
\* both were linked
C2_Witness ==
    /\ Len(builder.remote_units) >= 2
    /\ \E i \in 1..Len(builder.remote_units) : IsCentral(builder.remote_units[i].val)
    /\ Len(builder.measurements) = 2
    /\ Len(builder.remote_sources) + Len(builder.remote_controls) = 2

-----------------------------------------------------------------------------
(* C3: no Measurement/Control node exists for a point record whose name is  *)
(* empty or missing, every node held has a non-empty name, and the number   *)
(* of nodes is at most the number of point records passed in.               *)
C3_NameRequired ==
    /\ \A i \in 1..Len(log) : ~HasName(log[i].pt) => log[i].meas = 0 /\ ~Linked(log[i])
    /\ \A i \in 1..Len(builder.measurements) :
          Truthy(ChildText(builder.measurements[i], Q(CIM_NS, "IdentifiedObject.name")))
    /\ Len(builder.measurements) <= Len(log)

\* a nameless record and a named one were both passed in
C3_Witness ==
    /\ \E i \in 1..Len(log) : ~HasName(log[i].pt)
    /\ \E i \in 1..Len(log) : HasName(log[i].pt) /\ log[i].meas > 0
    /\ Len(builder.measurements) < Len(log)

-----------------------------------------------------------------------------
(* C4: total_points of get_stats equals the number of named point records   *)
(* passed to add_points so far, the sum of the four per-class counters, and *)
(* the number of Measurement/Control nodes the builder holds.               *)
C4_RoundTripCount ==
    LET st == get_stats(builder)
        Named(e) == HasName(e.pt)
    IN  /\ st.total_points = Count(Named)
        /\ st.total_points = st.analog_points + st.discrete_points
                             + st.accumulator_points + st.control_points
        /\ st.total_points = Len(builder.measurements)

\* devices and the central unit were set, and named and nameless points added
C4_Witness ==
    /\ Len(devicesIn) > 0 /\ Len(centralIn) > 0
    /\ get_stats(builder).total_points >= 1
    /\ \E i \in 1..Len(log) : ~HasName(log[i].pt)

-----------------------------------------------------------------------------
(* C5: a named point of data type MV, CMV, INT or INS gives an Analog node  *)
(* with measurement type "AI"; SPS, BOOL or DPS a Discrete node with "BI";  *)
(* BCR an Accumulator node with "CT"; a data type outside the class map and *)
(* the control set a Discrete node; and the analog, discrete and            *)
(* accumulator counters count exactly the points of their class.            *)
AnalogCodes == {"MV", "CMV", "INT", "INS"}
DiscreteCodes == {"SPS", "BOOL", "DPS"}
AccumulatorCodes == {"BCR"}
ControlCodes == {"operAPC", "operSPC", "APC", "INC", "SPC", "DPC"}
MappedCodes == AnalogCodes \cup DiscreteCodes \cup AccumulatorCodes \cup ControlCodes

C5_ClassMapping ==
    LET MType(e) == ChildText(MeasOf(e), Q(CIM_NS, "Measurement.measurementType"))
        IsAnalog(e) == HasName(e.pt) /\ TypeOf(e.pt) \in AnalogCodes
        IsAccumulator(e) == HasName(e.pt) /\ TypeOf(e.pt) \in AccumulatorCodes
        IsDiscrete(e) == HasName(e.pt)
                         /\ (TypeOf(e.pt) \in DiscreteCodes \/ TypeOf(e.pt) \notin MappedCodes)
    IN  /\ \A i \in 1..Len(log) :
              LET e == log[i] IN
              /\ IsAnalog(e) =>
                    e.meas > 0 /\ MeasOf(e).tag = Q(CIM_NS, "Analog") /\ MType(e) = "AI"
              /\ HasName(e.pt) /\ TypeOf(e.pt) \in DiscreteCodes =>
                    e.meas > 0 /\ MeasOf(e).tag = Q(CIM_NS, "Discrete") /\ MType(e) = "BI"
              /\ IsAccumulator(e) =>
                    e.meas > 0 /\ MeasOf(e).tag = Q(CIM_NS, "Accumulator") /\ MType(e) = "CT"
              /\ HasName(e.pt) /\ TypeOf(e.pt) \notin MappedCodes =>
                    e.meas > 0 /\ MeasOf(e).tag = Q(CIM_NS, "Discrete")
        /\ builder.stats.analog_points = Count(IsAnalog)
        /\ builder.stats.discrete_points = Count(IsDiscrete)
        /\ builder.stats.accumulator_points = Count(IsAccumulator)

\* a point of an unmapped data type was added and counted as discrete
C5_Witness ==
    /\ \E i \in 1..Len(log) : HasName(log[i].pt) /\ TypeOf(log[i].pt) = "XYZ"
    /\ builder.stats.discrete_points = 1

-----------------------------------------------------------------------------
(* C6: a named point whose data type is a control code gives a Control node *)
(* without measurement type, counted in control_points only, and the link   *)
(* emitted for it, if any, is a RemoteControl, emitted whenever a remote    *)
(* unit is resolvable; a named point of any other data type gives no        *)
(* Control node and no RemoteControl.                                       *)
Resolvable(e) == MapNameOf(e.pt) \in (e.units \ {"", None}) \/ Cardinality(e.units) = 1

C6_ControlDesignation ==
    LET IsCtl(e) == HasName(e.pt) /\ TypeOf(e.pt) \in ControlCodes
        NotCtl(e) == HasName(e.pt) /\ TypeOf(e.pt) \notin ControlCodes
    IN  /\ \A i \in 1..Len(log) :
              LET e == log[i] IN
              /\ IsCtl(e) =>
                    /\ e.meas > 0
                    /\ MeasOf(e).tag = Q(CIM_NS, "Control")
                    /\ ~HasChild(MeasOf(e), Q(CIM_NS, "Measurement.measurementType"))
                    /\ e.rs = 0
                    /\ Resolvable(e) =>
                          /\ e.rc > 0
                          /\ LinkOf(e).tag = Q(CIM_NS, "RemoteControl")
                          /\ ChildRef(LinkOf(e), Q(CIM_NS, "RemoteControl.Control"))
                                = "#" \o IdOf(MeasOf(e))
              /\ NotCtl(e) =>
                    /\ e.meas > 0
                    /\ MeasOf(e).tag # Q(CIM_NS, "Control")
                    /\ e.rc = 0
        /\ builder.stats.control_points = Count(IsCtl)
        /\ builder.stats.analog_points + builder.stats.discrete_points
           + builder.stats.accumulator_points = Count(NotCtl)

\* a control point was added while a remote unit was resolvable
C6_Witness ==
    \E i \in 1..Len(log) :
        /\ HasName(log[i].pt) /\ TypeOf(log[i].pt) = "INC"
        /\ log[i].rc > 0
        /\ builder.stats.control_points = 1

-----------------------------------------------------------------------------
(* C7: when exactly one device record has been given to the builder, every  *)
(* named point then added whose map-name is not that device's map-name      *)
(* receives a RemoteSource/RemoteControl referencing that device's          *)
(* RemoteUnit.                                                              *)
DeviceMapName(dev) ==
    IF "map_name" \in DOMAIN dev THEN dev["map_name"]
    ELSE IF "name" \in DOMAIN dev THEN dev["name"]
    ELSE dev["device_name"]

C7_SingleDeviceFallback ==
    \A i \in 1..Len(log) :
        LET e == log[i] IN
        (/\ e.devices = 1
         /\ HasName(e.pt)
         /\ MapNameOf(e.pt) # DeviceMapName(devicesIn[1]))
        => /\ Linked(e)
           /\ ChildRef(LinkOf(e), Q(CIM_NS, "RemotePoint.RemoteUnit"))
                = "#" \o ExpectedId("rtu", builder.substation_name,
                                    DeviceMapName(devicesIn[1]))

-----------------------------------------------------------------------------
-----------------------------------------------------------------------------
(* C9: a named point added while more than one remote unit exists and none  *)
(* is keyed by its map-name, or while no remote unit exists, gets its       *)
(* Measurement/Control node, is counted in the stats, and gets no           *)
(* RemoteSource/RemoteControl.                                              *)
Unresolved(e) ==
    \/ Cardinality(e.units) > 1 /\ MapNameOf(e.pt) \notin e.units
    \/ e.units = {}

C9_PartialGraph ==
    LET Named(e) == HasName(e.pt) IN
    /\ \A i \in 1..Len(log) :
          HasName(log[i].pt) /\ Unresolved(log[i]) =>
              /\ log[i].meas > 0
              /\ ChildText(MeasOf(log[i]), Q(CIM_NS, "IdentifiedObject.name"))
                    = log[i].pt["name"]
              /\ ~Linked(log[i])
    /\ get_stats(builder).total_points = Count(Named)
    /\ Len(builder.remote_sources) + Len(builder.remote_controls)
          = Cardinality({i \in 1..Len(log) : Linked(log[i])})

\* one point was added with no unit, another with two units and no match
C9_Witness ==
    /\ \E i \in 1..Len(log) : HasName(log[i].pt) /\ log[i].units = {}
    /\ \E i \in 1..Len(log) :
          /\ HasName(log[i].pt)
          /\ Cardinality(log[i].units) = 2
          /\ MapNameOf(log[i].pt) \notin log[i].units
    /\ get_stats(builder).total_points = 2


-----------------------------------------------------------------------------
(* C10: in an export of the Device or the TagList shape, the parser returns *)
(* at most as many point records as there are rows having an "Enable"       *)
(* setting whose value is "true" in some letter case: a row whose Enable    *)
(* values are all "false" in some letter case, or that has no Enable        *)
(* setting, gives no point record.                                          *)
TrueSpellings ==
    {a \o b \o c \o d : a \in {"t", "T"}, b \in {"r", "R"}, c \in {"u", "U"}, d \in {"e", "E"}}

IsSetting(s, col) ==
    /\ s.tag = "Setting"
    /\ \E i \in DOMAIN s.children : s.children[i].tag = "Column" /\ s.children[i].text = col

HasEnableTrue(row) ==
    \E i \in DOMAIN row.children :
        /\ IsSetting(row.children[i], "Enable")
        /\ \E k \in DOMAIN row.children[i].children :
              /\ row.children[i].children[k].tag = "Value"
              /\ row.children[i].children[k].text \in TrueSpellings

\* the rows of the tag tables of an export
TableRows(root) == SettingPageRows(FindAllDeep(root, "TagList")[1])

TagTableShape(root) == FindAllDeep(root, "TagList") # <<>>

C10_EnableFiltering ==
    (/\ parsed # Idle
     /\ input.xml_bytes.wellformed
     /\ TagTableShape(input.xml_bytes.root))
    => /\ Len(parsed[1].points)
            <= Cardinality({i \in DOMAIN TableRows(input.xml_bytes.root) :
                               HasEnableTrue(TableRows(input.xml_bytes.root)[i])})
       /\ \A i \in DOMAIN parsed[1].points :
             parsed[1].points[i]["_source_file"] = input.filename

\* a DNPServer device export whose only row has Enable "FALSE" has been
\* parsed: the device is returned, and no point record
C10_Witness ==
    /\ parsed # Idle
    /\ input.xml_bytes.wellformed
    /\ TagTableShape(input.xml_bytes.root)
    /\ Len(TableRows(input.xml_bytes.root)) = 1
    /\ IsSetting(TableRows(input.xml_bytes.root)[1].children[1], "Enable")
    /\ Len(TableRows(input.xml_bytes.root)[1].children[1].children) = 2
    /\ TableRows(input.xml_bytes.root)[1].children[1].children[2].text = "FALSE"
    /\ ~parsed[1].raised
    /\ Len(parsed[1].devices) = 1
    /\ parsed[1].points = <<>>

-----------------------------------------------------------------------------
(* C11: parse_rtac_xml_bytes raises exactly when the bytes are not          *)
(* well-formed XML: on every well-formed document, one with an empty Column *)
(* or an empty Value element included, it returns a (devices, points) pair. *)
C11_FailsOnlyOnMalformed ==
    parsed # Idle => (parsed[1].raised <=> ~input.xml_bytes.wellformed)

-----------------------------------------------------------------------------
(* The builder over device map-names of every form                          *)

MaxKeyDevices == 1   \* device records passed to add_devices

\* devices with a plain map-name, with a map-name of the form the central
\* node is keyed by, and without a map-name (the name is then the key)
KeyDevices ==
    { ("name" :> "IED1") @@ ("map_name" :> "M1"),
      ("name" :> "GW") @@ ("map_name" :> "__rtac__R1") @@ ("role" :> "client"),
      ("name" :> "R1") }

AddKeyDevices == AddDevicesFrom(KeyDevices, MaxKeyDevices)

NextKeys == AddKeyDevices \/ SetRtuIdentity \/ AddPoints

SpecKeys == Init /\ [][NextKeys]_vars

-----------------------------------------------------------------------------
(* C12: the key under which set_rtu_identity stores the central node is the *)
(* key of no device given to add_devices, so that the builder holds one     *)
(* remote unit per distinct device map-name and one per distinct RTU name:  *)
(* neither call has replaced a node stored by the other.                    *)
C12_CentralKeyPrivate ==
    /\ \A i \in DOMAIN devicesIn : \A j \in DOMAIN centralIn :
          DeviceMapName(devicesIn[i]) # "__rtac__" \o centralIn[j]
    /\ Len(builder.remote_units)
          = Cardinality({DeviceMapName(devicesIn[i]) : i \in DOMAIN devicesIn})
            + Cardinality({centralIn[j] : j \in DOMAIN centralIn})

-----------------------------------------------------------------------------
(* Two builder instances of one process, their calls interleaved            *)

MaxCalls == 3   \* calls made on the two instances together

Instances == {1, 2}

Inst(k) == IF k = 1 THEN builder ELSE builder2

IsoDevices == {("name" :> "IED1") @@ ("map_name" :> "M1")}

IsoPoints ==
    {("name" :> "P1") @@ ("type" :> "MV") @@ ("address" :> "101") @@ ("map_name" :> "M1"),
     ("name" :> "P2") @@ ("type" :> "SPC") @@ ("map_name" :> "M2")}

\* a call op(arg) on instance k that leaves it in state b and returns out
Call(k, op, arg, b, out) ==
    /\ Len(calls) < MaxCalls
    /\ IF k = 1 THEN builder' = b /\ UNCHANGED builder2
                ELSE builder2' = b /\ UNCHANGED builder
    /\ calls' = Append(calls, [who |-> k, op |-> op, arg |-> arg, out |-> out])
    /\ UNCHANGED <<devicesIn, centralIn, log, now, input, parsed, outputs, pushes, hookLog>>

\* variant: _remote_units and stats are shared by the instances
IsoAddDevices_shared ==
    \E k \in Instances : \E devices \in Lists(IsoDevices, 1) :
        /\ Len(calls) < MaxCalls
        /\ builder' = add_devices(builder, devices)
        /\ builder2' = add_devices(builder2, devices)
        /\ calls' = Append(calls, [who |-> k, op |-> "add_devices", arg |-> devices, out |-> None])
        /\ UNCHANGED <<devicesIn, centralIn, log, now, input, parsed, outputs, registry, pushes, hookLog>>

IsoAddDevices ==
    \E k \in Instances : \E devices \in Lists(IsoDevices, 1) :
        /\ Call(k, "add_devices", devices, add_devices(Inst(k), devices), None)
        /\ UNCHANGED registry

IsoAddPoints ==
    \E k \in Instances : \E points \in Lists(IsoPoints, 1) :
        /\ Call(k, "add_points", points, add_points(Inst(k), points), None)
        /\ UNCHANGED registry

\* serialize: the namespaces are registered, the stored elements indented
\* under the new root, and the root rendered with the registered prefixes
IsoSerialize ==
    \E k \in Instances :
        /\ Call(k, "serialize", now, serialized(Inst(k), now),
                [xml |-> serialize(Inst(k), now),
                 prefixes |-> prefixes(register_namespaces(registry))])
        /\ registry' = register_namespaces(registry)

IsoGetStats ==
    \E k \in Instances :
        /\ Call(k, "get_stats", None, Inst(k), get_stats(Inst(k)))
        /\ UNCHANGED registry

NextIso == IsoAddDevices \/ IsoAddPoints \/ IsoSerialize \/ IsoGetStats

SpecIso == Init /\ [][NextIso]_vars

-----------------------------------------------------------------------------
(* C13, as stated: a serialize call leaves both builders as they were:      *)
(* collections, counters and identifiers are the same after it as before.   *)
SerializeCall ==
    /\ Len(calls') = Len(calls) + 1
    /\ calls'[Len(calls')].op = "serialize"

C13_SerializeFrame ==
    [][SerializeCall => builder' = builder /\ builder2' = builder2]_vars

\* an element without the white space that indent writes
RECURSIVE Bare(_)
Bare(e) ==
    [e EXCEPT !.text = IF Blank(@) THEN None ELSE @,
              !.tail = IF Blank(@) THEN None ELSE @,
              !.children = [i \in DOMAIN @ |-> Bare(@[i])]]

BareBuilder(b) ==
    [b EXCEPT !.remote_units = [i \in DOMAIN @ |-> [key |-> @[i].key, val |-> Bare(@[i].val)]],
              !.measurements = [i \in DOMAIN @ |-> Bare(@[i])],
              !.remote_sources = [i \in DOMAIN @ |-> Bare(@[i])],
              !.remote_controls = [i \in DOMAIN @ |-> Bare(@[i])],
              !.comm_links = [i \in DOMAIN @ |-> Bare(@[i])],
              !.dataflows = [i \in DOMAIN @ |-> Bare(@[i])]]

SameButIndent(b, c) ==
    /\ BareBuilder(b) = BareBuilder(c)
    /\ get_stats(b) = get_stats(c)
    /\ serialize(b, now) = serialize(c, now)

(* C13, amended: a serialize call changes nothing of either builder but the *)
(* white-space text and tail of the stored elements, which indent rewrites: *)
(* the elements of each collection, their order, identifiers and content,   *)
(* the counters and the model identifiers are as before, get_stats returns  *)
(* the same value, and serialize called again returns the same document.    *)
C13_SerializeFrameButIndent ==
    [][SerializeCall => SameButIndent(builder', builder) /\ SameButIndent(builder2', builder2)]_vars

\* a builder holding a unit and a measurement has been serialized twice,
\* its stored measurement now carrying the indentation
C13_Witness ==
    \E k \in Instances :
        /\ Len(calls) = 3
        /\ calls[1].who = k /\ calls[1].op = "add_points" /\ calls[1].arg # <<>>
        /\ calls[2].who = k /\ calls[2].op = "serialize"
        /\ calls[3].who = k /\ calls[3].op = "serialize"
        /\ calls[3].out = calls[2].out
        /\ Len(Inst(k).measurements) = 1
        /\ Inst(k).measurements[1].text = Indentation(2)

-----------------------------------------------------------------------------
(* C15: with the calls on two builder instances interleaved in any order,   *)
(* each instance is in the state, and each of its serialize and get_stats   *)
(* calls has returned the value, that its own calls alone give in a fresh   *)
(* process: no call on one instance changes the state or the output of the  *)
(* other.                                                                   *)
OwnConfig(k) == IF k = 1 THEN DefaultConfig ELSE SecondConfig

\* the effect of call c on an instance running alone: its state, the
\* namespace registry of its process, and the values returned so far
AloneStep(a, c) ==
    CASE c.op = "add_devices" ->
           [a EXCEPT !.b = add_devices(@, c.arg), !.outs = Append(@, None)]
      [] c.op = "add_points" ->
           [a EXCEPT !.b = add_points(@, c.arg), !.outs = Append(@, None)]
      [] c.op = "serialize" ->
           [b |-> serialized(a.b, c.arg),
            reg |-> register_namespaces(a.reg),
            outs |-> Append(a.outs, [xml |-> serialize(a.b, c.arg),
                                     prefixes |-> prefixes(register_namespaces(a.reg))])]
      [] c.op = "get_stats" ->
           [a EXCEPT !.outs = Append(@, get_stats(a.b))]

\* instance k after those of the first n calls that are its own
RECURSIVE Alone(_, _)
Alone(k, n) ==
    IF n = 0
    THEN [b |-> NewBuilder(OwnConfig(k)), reg |-> DefaultRegistry, outs |-> <<>>]
    ELSE Bind(Alone(k, n - 1), LAMBDA a :
            IF calls[n].who = k THEN AloneStep(a, calls[n]) ELSE a)

OwnCalls(k) == SelectSeq(calls, LAMBDA c : c.who = k)

C15_Isolation ==
    \A k \in Instances :
        Bind(Alone(k, Len(calls)), LAMBDA a :
           /\ Inst(k) = a.b
           /\ [i \in DOMAIN OwnCalls(k) |-> OwnCalls(k)[i].out] = a.outs)

\* instance 1 has been given a point and serialized, with a call that gave
\* instance 2 a device in between
C15_Witness ==
    /\ Len(calls) = 3
    /\ calls[1].who = 1 /\ calls[1].op = "add_points" /\ calls[1].arg # <<>>
    /\ calls[2].who = 2 /\ calls[2].op = "add_devices" /\ calls[2].arg # <<>>
    /\ calls[3].who = 1 /\ calls[3].op = "serialize"
    /\ Len(builder.remote_units) = 0
    /\ Len(builder2.remote_units) = 1

-----------------------------------------------------------------------------
(* C14: for an export with one Device, of connection protocol DNPServer and *)
(* configured Map Name M, the parser returns one device record, of map-name *)
(* M, and each run of generate_sc_profile_from_bytes gives a document with  *)
(* one RemoteUnit, of type RTU, one Measurement/Control node per enabled    *)
(* named row, and one RemoteSource/RemoteControl per node, referencing that *)
(* RemoteUnit, with remote_units = 1 and total_points the number of enabled *)
(* named rows.                                                              *)
JoinMapName == "MAP1"

IsJoinExport(xml_bytes) ==
    /\ xml_bytes.wellformed
    /\ FindAllDeep(xml_bytes.root, "TagList") # <<>>
    /\ xml_bytes.root = DeviceDoc("DNPServer", JoinMapName,
                                  SettingPageRows(FindAllDeep(xml_bytes.root, "TagList")[1]))

\* the value a row gives a column: that of the last Setting of that Column
\* that has a Value, Missing when there is none
SettingValue(row, col) ==
    LET having == {i \in DOMAIN row.children :
                      /\ IsSetting(row.children[i], col)
                      /\ \E k \in DOMAIN row.children[i].children :
                            row.children[i].children[k].tag = "Value"}
        last == CHOOSE i \in having : \A j \in having : j <= i
    IN  IF having = {} THEN Missing ELSE Find(row.children[last], "Value").text

EnabledNamedRow(row) ==
    /\ SettingValue(row, "Enable") \in TrueSpellings
    /\ SettingValue(row, "Tag Name") \notin {Missing, None, ""}

EnabledNamedRows(root) ==
    Cardinality({i \in DOMAIN TableRows(root) : EnabledNamedRow(TableRows(root)[i])})

PointTags ==
    {Q(CIM_NS, "Analog"), Q(CIM_NS, "Discrete"), Q(CIM_NS, "Accumulator"), Q(CIM_NS, "Control")}

LinkTags == {Q(CIM_NS, "RemoteSource"), Q(CIM_NS, "RemoteControl")}

\* the children of the document root with a tag of the set, in order
RECURSIVE Tagged(_, _)
Tagged(es, tags) ==
    IF es = <<>> THEN <<>>
    ELSE Opt(es[1].tag \in tags, es[1]) \o Tagged(Tail(es), tags)

\* the node a link is the link of
LinkedNode(link) ==
    IF link.tag = Q(CIM_NS, "RemoteSource")
    THEN ChildRef(link, Q(CIM_NS, "RemoteSource.MeasurementValue"))
    ELSE ChildRef(link, Q(CIM_NS, "RemoteControl.Control"))

JoinedGraph(result, n) ==
    LET units == Tagged(result.xml.children, {Q(CIM_NS, "RemoteUnit")})
        nodes == Tagged(result.xml.children, PointTags)
        links == Tagged(result.xml.children, LinkTags)
    IN  /\ Len(units) = 1
        /\ ChildRef(units[1], Q(CIM_NS, "RemoteUnit.remoteUnitType"))
              = CIM_NS \o "RemoteUnitType.RTU"
        /\ ChildText(units[1], Q(VER_NS, "RemoteUnit.mapName")) = JoinMapName
        /\ Len(nodes) = n
        /\ Len(links) = n
        /\ \A i \in DOMAIN links :
              /\ ChildRef(links[i], Q(CIM_NS, "RemotePoint.RemoteUnit")) = "#" \o IdOf(units[1])
              /\ \E k \in DOMAIN nodes :
                    /\ LinkedNode(links[i]) = "#" \o IdOf(nodes[k])
                    /\ (links[i].tag = Q(CIM_NS, "RemoteControl"))
                          = (nodes[k].tag = Q(CIM_NS, "Control"))
        /\ \A k \in DOMAIN nodes :
              \E i \in DOMAIN links : LinkedNode(links[i]) = "#" \o IdOf(nodes[k])
        /\ result.stats.remote_units = 1
        /\ result.stats.total_points = n

-----------------------------------------------------------------------------
(* The push webhook (api/routes.py) and the commit-back (api/gitea_client) *)

MaxPushes == 2

\* `sub in s` for strings
Contains(s, sub) ==
    \E i \in 1..(Len(s) - Len(sub) + 1) : SubSeq(s, i, i + Len(sub) - 1) = sub

\* s.startswith(prefix)
StartsWith(s, prefix) ==
    Len(s) >= Len(prefix) /\ SubSeq(s, 1, Len(prefix)) = prefix

\* s.endswith(suffix)
EndsWith(s, suffix) ==
    Len(s) >= Len(suffix) /\ SubSeq(s, Len(s) - Len(suffix) + 1, Len(s)) = suffix

\* s.split("/")[-1]
RECURSIVE LastSegment(_)
LastSegment(s) ==
    IF ~Contains(s, "/") THEN s
    ELSE LastSegment(Tail(s))

\* repo.split("/")[-1] if "/" in repo else repo
substation_name(repo) == IF Contains(repo, "/") THEN LastSegment(repo) ELSE repo

\* the test that skips a commit of the payload
is_bot_commit(message) ==
    Contains(message, "SCADA Studio Bot") \/ Contains(message, "[bot]")

\* [f for f in commit.added + commit.modified
\*    if f.startswith("xml/") and f.endswith(".xml")]
xml_files(commit) ==
    SelectSeq(commit.added \o commit.modified,
              LAMBDA f : StartsWith(f, "xml/") /\ EndsWith(f, ".xml"))

\* the path of the commit-back
sc_filename(substation) == "profiles/" \o substation \o "_SC.xml"

\* the message of the commit-back without its marker
sc_commit_message_plain(filename) == "Update SC profile from " \o LastSegment(filename)

\* the message of the commit-back
sc_commit_message(filename) == "[bot] Update SC profile from " \o LastSegment(filename)

\* CommitInfo and WebhookPayload (api/schemas.py); cause records who made the
\* commits of the event, a person or the service's own commit-back
CommitInfo(message, added, modified) ==
    [message |-> message, added |-> added, modified |-> modified]

WebhookPayload(repo, commits, cause) ==
    [repository |-> repo, commits |-> commits, cause |-> cause]

\* how far the processing of one file gets: each awaited call may raise
Outcomes == {"fetch_failed", "index_failed", "generate_failed", "commit_failed", "ok"}

HookEntry(kind, cause, message, path) ==
    [kind |-> kind, cause |-> cause, message |-> message, path |-> path]

\* the steps the handler takes on one file of one commit, in order
file_steps(cause, message, fpath, outcome) ==
    <<HookEntry("fetch", cause, message, fpath)>>
    \o (IF outcome = "fetch_failed" THEN <<>>
        ELSE <<HookEntry("index", cause, message, fpath)>>)
    \o (IF outcome \in {"fetch_failed", "index_failed"} THEN <<>>
        ELSE <<HookEntry("profile", cause, message, fpath)>>)

\* commit_file_to_gitea as called by _generate_and_store_sc_profile: what is
\* committed when the call succeeds
commit_back(repo, cause, fpath, outcome) ==
    IF outcome = "ok"
    THEN <<HookEntry("commit_back", cause, sc_commit_message(fpath),
                     sc_filename(substation_name(repo)))>>
    ELSE <<>>

\* the body of `for fpath in xml_files` for one file
process_file(repo, cause, message, fpath, outcome) ==
    file_steps(cause, message, fpath, outcome) \o commit_back(repo, cause, fpath, outcome)

\* the files the handler will process, commit by commit
RECURSIVE work_items(_)
work_items(commits) ==
    IF commits = <<>> THEN <<>>
    ELSE (IF is_bot_commit(Head(commits).message) THEN <<>>
          ELSE [i \in 1..Len(xml_files(Head(commits))) |->
                   [message |-> Head(commits).message,
                    fpath   |-> xml_files(Head(commits))[i]]])
         \o work_items(Tail(commits))

\* the two loops of gitea_push_webhook, outcomes[i] deciding item i
RECURSIVE handle_items(_, _, _, _)
handle_items(repo, cause, items, outcomes) ==
    IF items = <<>> THEN <<>>
    ELSE process_file(repo, cause, Head(items).message, Head(items).fpath, Head(outcomes))
         \o handle_items(repo, cause, Tail(items), Tail(outcomes))

\* gitea_push_webhook: the steps taken on a payload
gitea_push_webhook(payload, outcomes) ==
    handle_items(payload.repository, payload.cause,
                 work_items(payload.commits), outcomes)
    \o <<HookEntry("handled", payload.cause, "", "")>>

\* the push events Gitea sends for the commits the handler made
PushesOf(repo, steps) ==
    LET made == SelectSeq(steps, LAMBDA e : e.kind = "commit_back")
    IN  [i \in 1..Len(made) |->
            WebhookPayload(repo,
                           <<CommitInfo(made[i].message, <<>>, <<made[i].path>>)>>,
                           "webhook")]

Repos == {"scada/maple"}

\* the pushes people make
UserCommits ==
    { <<CommitInfo("Add feeder config", <<"xml/a.xml">>, <<>>)>>,
      <<CommitInfo("[bot] Update SC profile from a.xml", <<>>, <<"xml/a.xml">>)>>,
      <<CommitInfo("Tidy up (SCADA Studio Bot)", <<"xml/a.xml">>, <<>>)>>,
      <<CommitInfo("Notes", <<"docs/a.xml", "xml/notes.txt">>, <<"profiles/maple_SC.xml">>)>>,
      <<CommitInfo("Add relay", <<"xml/ied/b.xml">>, <<>>),
        CommitInfo("[bot] regenerate", <<"xml/a.xml">>, <<>>)>>,
      <<CommitInfo("[BOT] Retune", <<>>, <<"xml/a.xml">>)>> }

\* a person pushes to the repository; Gitea queues the push event
UserPush ==
    /\ Len(SelectSeq(hookLog, LAMBDA e : e.kind = "pushed")) < MaxPushes
    /\ \E r \in Repos, c \in UserCommits :
        /\ pushes' = Append(pushes, WebhookPayload(r, c, "user"))
        /\ hookLog' = Append(hookLog, HookEntry("pushed", "user", c[1].message, ""))
    /\ UNCHANGED coreVars

\* Gitea delivers the oldest push event; the handler runs on it, and Gitea
\* queues a push event for every commit the handler made
Webhook ==
    /\ pushes # <<>>
    /\ LET payload == Head(pushes)
           n == Len(work_items(payload.commits))
       IN  \E outcomes \in [1..n -> Outcomes] :
            LET steps == gitea_push_webhook(payload, outcomes)
            IN  /\ hookLog' = hookLog \o steps
                /\ pushes' = Tail(pushes) \o PushesOf(payload.repository, steps)
    /\ UNCHANGED coreVars

NextHook == UserPush \/ Webhook

SpecHook == Init /\ [][NextHook]_vars

Marker(message) == Contains(message, "SCADA Studio Bot") \/ Contains(message, "[bot]")

Entries(kinds) == {hookLog[i] : i \in {j \in DOMAIN hookLog : hookLog[j].kind \in kinds}}

\* C16: a commit whose message holds "SCADA Studio Bot" or "[bot]" is never
\* fetched, indexed or profiled; every commit-back has a message holding
\* "[bot]" and a path outside xml/; every step the handler takes on a file is
\* taken for a push of a person, never for the push event of a commit-back,
\* and a push event of a commit-back still to deliver has no file to process
C16_LoopPrevention ==
    /\ \A e \in Entries({"fetch", "index", "profile"}) : ~Marker(e.message)
    /\ \A e \in Entries({"commit_back"}) :
        /\ Contains(e.message, "[bot]")
        /\ ~StartsWith(e.path, "xml/")
    /\ \A e \in Entries({"fetch", "index", "profile", "commit_back"}) : e.cause = "user"
    /\ \A i \in DOMAIN pushes :
        pushes[i].cause = "webhook" => work_items(pushes[i].commits) = <<>>

\* the push event of a commit-back has been handled, nothing is left to
\* deliver, and the only commit-back is the first one
C16_Witness ==
    /\ pushes = <<>>
    /\ Cardinality({i \in DOMAIN hookLog : hookLog[i].kind = "commit_back"}) = 1
    /\ \E i \in DOMAIN hookLog :
        hookLog[i].kind = "handled" /\ hookLog[i].cause = "webhook"

-----------------------------------------------------------------------------
(* Shape detection                                                          *)

\* some element of the document, the root included, has the tag
AnyElement(root, tag) == \E i \in DOMAIN Iter(root) : Iter(root)[i].tag = tag

ShapeByAnyElement(root) ==
    IF AnyElement(root, "Device") THEN "Device"
    ELSE IF AnyElement(root, "TagList") THEN "TagList"
    ELSE "generic"

\* C17: parse chooses the Device shape whenever any element of the document,
\* the root included, is a Device; otherwise the TagList shape whenever any
\* element, the root included, is a TagList; otherwise generic extraction
C17_ShapeDetection ==
    parsed # Idle /\ input.xml_bytes.wellformed
        => /\ detect_shape(input.xml_bytes.root) = ShapeByAnyElement(input.xml_bytes.root)
           /\ parsed[1] = parse_shape(ShapeByAnyElement(input.xml_bytes.root),
                                      input.xml_bytes.root, input.filename)

-----------------------------------------------------------------------------
(* No fallthrough                                                           *)

\* a Device element was found by the parse
DeviceFound == input.xml_bytes.wellformed /\ FindAllDeep(input.xml_bytes.root, "Device") # <<>>

\* the document has something the other two strategies would extract from
HasOtherShapes ==
    /\ AnyElement(input.xml_bytes.root, "TagList")
    /\ \E i \in DOMAIN Iter(input.xml_bytes.root) : Iter(input.xml_bytes.root)[i].tag \in POINT_TAGS

\* the first Device has no connection, or a protocol other than DNPServer
DeviceYieldsNothing ==
    LET device == FindAllDeep(input.xml_bytes.root, "Device")[1]
        connections == FindAllDeep(device, "Connection")
    IN  \/ connections = <<>>
        \/ ChildText(connections[1], "Protocol") # "DNPServer"

\* C18: once a Device element is found, parse returns exactly what the Device
\* shape yields, and when the device has no connection or a protocol other
\* than DNPServer that is no device and no point, whatever tag tables and
\* point elements the document holds
C18_NoFallthrough ==
    parsed # Idle /\ DeviceFound
        => /\ parsed[1] = parse_device(input.xml_bytes.root, input.filename)
           /\ DeviceYieldsNothing
                => parsed[1] = [raised |-> FALSE, devices |-> <<>>, points |-> <<>>]

C18_Witness ==
    /\ parsed # Idle
    /\ DeviceFound
    /\ DeviceYieldsNothing
    /\ HasOtherShapes
    /\ parsed[1] = [raised |-> FALSE, devices |-> <<>>, points |-> <<>>]

-----------------------------------------------------------------------------
(* The records parse returns                                                *)

\* the point records of a parse that returned
ParsedPoints ==
    IF parsed = Idle \/ parsed[1].raised THEN {}
    ELSE {parsed[1].points[i] : i \in DOMAIN parsed[1].points}

\* C19: every point record returned by parse has a non-empty name
C19_PointsNamed ==
    \A p \in ParsedPoints : "name" \in DOMAIN p /\ p["name"] \notin {None, ""}

\* the Map Name configured in the connection of the first Device below the
\* root: the second value of the row whose first setting is Setting = Map Name
ConfiguredMapName ==
    LET devices == FindAllDeep(input.xml_bytes.root, "Device")
        connections == IF devices = <<>> THEN <<>> ELSE FindAllDeep(devices[1], "Connection")
        rows == IF connections = <<>> THEN <<>>
                ELSE SelectSeq(FindAllDeep(connections[1], "Row"),
                               LAMBDA row : /\ Len(row.children) >= 2
                                            /\ IsSetting(row.children[1], "Setting")
                                            /\ Find(row.children[1], "Value").text = "Map Name")
    IN  IF rows = <<>> \/ connections = <<>> THEN None
        ELSE IF ChildText(connections[1], "Protocol") # "DNPServer" THEN None
        ELSE Find(rows[1].children[2], "Value").text

\* C20: each point record extracted from a tag table under a Device whose
\* configured Map Name is M, not empty, carries map_name = M, and every record
\* carries as source file the filename passed to parse, whatever columns the
\* row has
C20_MapNameAndSource ==
    /\ \A p \in ParsedPoints :
        "_source_file" \in DOMAIN p /\ p["_source_file"] = input.filename
    /\ Truthy(ConfiguredMapName)
        => \A p \in ParsedPoints :
              "map_name" \in DOMAIN p /\ p["map_name"] = ConfiguredMapName

-----------------------------------------------------------------------------
(* The pipeline under several filenames                                     *)

\* an export whose Device has no Name element
NamelessDeviceDoc ==
    Element("Project", NoAttrib, None,
      <<Element("Device", NoAttrib, None,
          <<ConnectionEl("DNPServer"), TagListEl(<<NamedRow>>)>>)>>)

NameRoots ==
    {DeviceDoc("DNPServer", "MAP1", <<NamedRow>>), TagListDoc(<<NamedRow>>), NamelessDeviceDoc}
    \cup GenericDocs \cup RootShapeDocs \cup MixedDocs

NameFilenames == {"a.xml", "upload.xml"}

InitNames ==
    /\ builder = NewBuilder(DefaultConfig)
    /\ devicesIn = <<>>
    /\ centralIn = <<>>
    /\ log = <<>>
    /\ now = 0
    /\ input \in [xml_bytes : {[wellformed |-> TRUE, root |-> r] : r \in NameRoots},
                   filename : NameFilenames, substation_name : {"maple"}]
    /\ parsed = Idle
    /\ outputs = <<>>
    /\ builder2 = NewBuilder(SecondConfig)
    /\ registry = DefaultRegistry
    /\ calls = <<>>
    /\ pushes = <<>>
    /\ hookLog = <<>>

SpecNames == InitNames /\ [][NextGen]_vars

\* a record without its source file
WithoutSource(rec) == [k \in DOMAIN rec \ {"_source_file"} |-> rec[k]]

\* a parse result with the source file of every record erased
SourceBlind(r) ==
    [raised  |-> r.raised,
     devices |-> [i \in DOMAIN r.devices |-> WithoutSource(r.devices[i])],
     points  |-> [i \in DOMAIN r.points |-> WithoutSource(r.points[i])]]

\* C21: the parse of a document under any other filename gives the same
\* device and point records, field by field, except for their source file
C21_FilenameBlind ==
    parsed # Idle
        => \A f \in NameFilenames :
              SourceBlind(parse_rtac_xml_bytes(input.xml_bytes, f)) = SourceBlind(parsed[1])

-----------------------------------------------------------------------------
(* points_list.py: the point type of a row of the points list               *)

UpperChar(c) ==
    CASE c = "a" -> "A" [] c = "b" -> "B" [] c = "c" -> "C" [] c = "d" -> "D"
      [] c = "e" -> "E" [] c = "f" -> "F" [] c = "g" -> "G" [] c = "h" -> "H"
      [] c = "i" -> "I" [] c = "j" -> "J" [] c = "k" -> "K" [] c = "l" -> "L"
      [] c = "m" -> "M" [] c = "n" -> "N" [] c = "o" -> "O" [] c = "p" -> "P"
      [] c = "q" -> "Q" [] c = "r" -> "R" [] c = "s" -> "S" [] c = "t" -> "T"
      [] c = "u" -> "U" [] c = "v" -> "V" [] c = "w" -> "W" [] c = "x" -> "X"
      [] c = "y" -> "Y" [] c = "z" -> "Z" [] OTHER -> c

\* str.upper()
RECURSIVE Upper(_)
Upper(s) == IF s = "" THEN "" ELSE UpperChar(Head(s)) \o Upper(Tail(s))

DEFAULT_TYPE_MAP ==
    [c \in {"MV", "CMV", "INT", "INS"} |-> "AI"]
    @@ [c \in {"SPS", "BOOL", "DPS"} |-> "BI"]
    @@ [c \in {"BCR"} |-> "CT"]
    @@ [c \in {"APC", "INC"} |-> "AO"]
    @@ [c \in {"SPC", "DPC"} |-> "BO"]

\* _map_point_type; a data type of None has no upper() and is left out
map_point_type(point) ==
    LET dt == IF Truthy(Get(point, "data_type", "")) THEN point["data_type"]
              ELSE Get(point, "type", "")
    IN  Get(DEFAULT_TYPE_MAP, Upper(dt), dt)

-----------------------------------------------------------------------------
(* The lookups and the letter case of the data-type code                    *)

\* what the lookups decide for a Measurement/Control node: its class, which
\* is Control for a control, and its point-type abbreviation, None for a control
Designation(m) ==
    [class |-> m.tag,
     point_type |-> IF HasChild(m, Q(CIM_NS, "Measurement.measurementType"))
                    THEN ChildText(m, Q(CIM_NS, "Measurement.measurementType"))
                    ELSE None]

\* the node the builder makes for the record pt with data type t instead
NodeWithType(pt, t) ==
    emit_point(NewBuilder(DefaultConfig), Put(pt, "type", t)).measurements[1]

TypedCodes == DataTypes \ {None}

\* C22: two points whose data types differ only in letter case get the same
\* CIM class, the same point-type abbreviation and the same control designation
C22_CaseBlindLookup ==
    \A i \in 1..Len(log) :
        LET e == log[i] IN
        (HasName(e.pt) /\ TypeOf(e.pt) \in TypedCodes)
        => \A t \in TypedCodes :
              Upper(t) = Upper(TypeOf(e.pt))
                 => Designation(NodeWithType(e.pt, t)) = Designation(MeasOf(e))

PointTypeCodes == {"AI", "BI", "CT", "AO", "BO"}

\* C23: the point-type abbreviation of a non-control point with a data type
\* is one of AI, BI, CT, AO, BO when the data type is mapped and is the data
\* type itself, upper-cased, when it is not; so is the point type of a
\* points-list row
C23_UnknownPassThrough ==
    \A i \in 1..Len(log) :
        LET e == log[i] IN
        (/\ HasName(e.pt)
         /\ TypeOf(e.pt) \in TypedCodes \ {""}
         /\ TypeOf(e.pt) \notin ControlCodes)
        => /\ TypeOf(e.pt) \in MappedCodes
                => Designation(MeasOf(e)).point_type \in PointTypeCodes
           /\ TypeOf(e.pt) \notin MappedCodes
                => Designation(MeasOf(e)).point_type = Upper(TypeOf(e.pt))
           /\ map_point_type(e.pt)
                = (IF Upper(TypeOf(e.pt)) \in DOMAIN DEFAULT_TYPE_MAP
                   THEN DEFAULT_TYPE_MAP[Upper(TypeOf(e.pt))] ELSE Upper(TypeOf(e.pt)))

-----------------------------------------------------------------------------
(* The remote units: devices sharing a map-name, several central names      *)

MaxUnitDevices == 2   \* device records passed to add_devices
MaxUnitCentral == 2   \* calls of set_rtu_identity

\* two devices of one map-name, and a third of another
UnitDevices ==
    {("name" :> "IED1") @@ ("map_name" :> "M1") @@ ("_source_file" :> "a.xml"),
     ("name" :> "IED3") @@ ("map_name" :> "M1") @@ ("role" :> "client"),
     ("name" :> "IED2") @@ ("map_name" :> "M2") @@ ("role" :> "server")}

UnitRtuNames == {"R1", "R2"}

AddUnitDevices == AddDevicesFrom(UnitDevices, MaxUnitDevices)

SetUnitIdentity ==
    \E rtu_name \in UnitRtuNames :
        /\ Len(centralIn) < MaxUnitCentral
        /\ builder' = set_rtu_identity(builder, rtu_name)
        /\ centralIn' = Append(centralIn, rtu_name)
        /\ UNCHANGED <<devicesIn, log, now, input, parsed, outputs, isoVars, registry>>

NextUnits == AddUnitDevices \/ SetUnitIdentity

SpecUnits == Init /\ [][NextUnits]_vars

\* the RemoteUnit nodes the builder holds, central or not
UnitsHeld(central) ==
    {i \in 1..Len(builder.remote_units) : IsCentral(builder.remote_units[i].val) = central}

\* the device records given so far
DevicesGiven == {devicesIn[i] : i \in DOMAIN devicesIn}

\* C24: after any sequence of add_devices and set_rtu_identity calls the
\* builder holds one RemoteUnit node per device record it was given, and at
\* most one central node, however often and under whatever names
\* set_rtu_identity was called
C24_OneUnitPerDevice ==
    /\ Cardinality(UnitsHeld(FALSE)) = Cardinality(DevicesGiven)
    /\ Cardinality(UnitsHeld(TRUE)) <= 1

\* the RemoteUnit nodes of the document serialize writes
UnitsWritten ==
    LET doc == serialize(builder, now)
    IN  {i \in DOMAIN doc.children : doc.children[i].tag = Q(CIM_NS, "RemoteUnit")}

\* C28: after any sequence of add_devices and set_rtu_identity calls,
\* remote_units of get_stats is the number of RemoteUnit nodes that serialize
\* writes to the document
C28_UnitsCounted == get_stats(builder).remote_units = Cardinality(UnitsWritten)

-----------------------------------------------------------------------------
(* Construction order                                                       *)

\* the point records given so far, in order
PointsGiven == [i \in 1..Len(log) |-> log[i].pt]

\* the builder that is given the same device records first and the same
\* point records after them
DevicesFirst ==
    add_points(add_devices(NewBuilder(DefaultConfig), devicesIn), PointsGiven)

\* the nodes and links of a document: the elements under its root
NodeSet(doc) == {doc.children[i] : i \in DOMAIN doc.children}

\* C25: for the same device records and point records, the nodes and links
\* serialized are the same whether add_devices is called before add_points,
\* after it, or the two are interleaved in several calls
C25_OrderIndependent ==
    centralIn = <<>>
        => NodeSet(serialize(builder, now)) = NodeSet(serialize(DevicesFirst, now))

-----------------------------------------------------------------------------
(* Referential integrity of the links                                       *)

\* some element of the sequence, passing the test, has the identifier the
\* reference points to
RefersInto(ref, elems, Test(_)) ==
    \E i \in DOMAIN elems : Test(elems[i]) /\ ref = "#" \o IdOf(elems[i])

IsControlNode(m) == m.tag = Q(CIM_NS, "Control")
IsMeasurementNode(m) == m.tag # Q(CIM_NS, "Control")
AnyNode(m) == TRUE

\* C26: each RemoteSource references the identifier of a non-control
\* Measurement node the builder holds, each RemoteControl that of a Control
\* node it holds, each of them that of a RemoteUnit node it holds, and no
\* point record gives rise to more than one link
C26_LinksResolve ==
    /\ \A i \in 1..Len(builder.remote_sources) :
          LET rs == builder.remote_sources[i] IN
          /\ RefersInto(ChildRef(rs, Q(CIM_NS, "RemoteSource.MeasurementValue")),
                        builder.measurements, IsMeasurementNode)
          /\ RefersInto(ChildRef(rs, Q(CIM_NS, "RemotePoint.RemoteUnit")),
                        DictValues(builder.remote_units), AnyNode)
    /\ \A i \in 1..Len(builder.remote_controls) :
          LET rc == builder.remote_controls[i] IN
          /\ RefersInto(ChildRef(rc, Q(CIM_NS, "RemoteControl.Control")),
                        builder.measurements, IsControlNode)
          /\ RefersInto(ChildRef(rc, Q(CIM_NS, "RemotePoint.RemoteUnit")),
                        DictValues(builder.remote_units), AnyNode)
    /\ \A i \in 1..Len(log) : ~(log[i].rs > 0 /\ log[i].rc > 0)
    /\ Len(builder.remote_sources) + Len(builder.remote_controls)
          = Cardinality({i \in 1..Len(log) : Linked(log[i])})

-----------------------------------------------------------------------------
(* Identifiers within a document                                            *)

\* the positions of the nodes of a document that carry an rdf:ID
Identified(doc) ==
    {i \in DOMAIN doc.children : Q(RDF_NS, "ID") \in DOMAIN doc.children[i].attrib}

\* C27: in the document serialize produces, no two nodes carry the same rdf:ID
C27_IdsUnique ==
    LET doc == serialize(builder, now) IN
    \A i, j \in Identified(doc) :
        i # j => IdOf(doc.children[i]) # IdOf(doc.children[j])

-----------------------------------------------------------------------------
(* The central node and the linking of points                               *)

\* the keys of the device units among the keys of the remote units
DeviceKeys(units) == {k \in units : ~StartsWith(k, "__rtac__")}

\* the identifiers of the central nodes set so far
CentralIds == {ExpectedId("rtac", builder.substation_name, centralIn[i]) : i \in DOMAIN centralIn}

\* C29: a point is linked exactly when it would be with the device units
\* alone, its map-name being the key of one of them or there being just one
\* of them, and no link references the central node
C29_CentralNeutral ==
    \A i \in 1..Len(log) :
        LET e == log[i] IN
        HasName(e.pt)
        => /\ Linked(e) <=> \/ MapNameOf(e.pt) \in (DeviceKeys(e.units) \ {"", None})
                            \/ Cardinality(DeviceKeys(e.units)) = 1
           /\ Linked(e) =>
                 \A c \in CentralIds :
                    ChildRef(LinkOf(e), Q(CIM_NS, "RemotePoint.RemoteUnit")) # "#" \o c

-----------------------------------------------------------------------------
(* The identifier generator on its own                                      *)

MaxSeeds == 2   \* identifiers made

SeedKinds == {"rtu", "pt"}
SeedSubstations == {"maple", "a", "a|b"}
SeedKeys == {"M1", "c", "b|c"}

\* _make_mrid(kind, substation_name, key), recorded with its seed
MakeMrid ==
    /\ Len(calls) < MaxSeeds
    /\ \E kind \in SeedKinds, substation \in SeedSubstations, key \in SeedKeys :
          calls' = Append(calls,
                     [kind |-> kind, substation |-> substation, key |-> key,
                      seed |-> uuid_seed(kind, <<substation, key>>),
                      mrid |-> make_mrid(kind, <<substation, key>>)])
    /\ UNCHANGED <<builder, devicesIn, centralIn, log, now, input, parsed, outputs, builder2, registry, pushes, hookLog>>

SpecSeed == Init /\ [][MakeMrid]_vars

\* C30: for one object kind, two different (substation name, natural key)
\* pairs never give the same seed string, nor the same identifier
C30_SeedInjective ==
    \A i, j \in DOMAIN calls :
        (/\ calls[i].kind = calls[j].kind
         /\ <<calls[i].substation, calls[i].key>> # <<calls[j].substation, calls[j].key>>)
        => calls[i].seed # calls[j].seed /\ calls[i].mrid # calls[j].mrid

====
